---------------------------- MODULE Spec2Model ----------------------------
(***************************************************************************)
(* A model of the py2to3 migration server (src/py2to3_server.py) and of    *)
(* the file tools of src/filesystem_server.py.                             *)
(*                                                                         *)
(* SpecConvert  the convert_file tool, step by step through its file I/O   *)
(*              (read, backup write, target write), with I/O failures and  *)
(*              a crash of the process possible at every step.             *)
(* SpecBackup   repeated successful conversions of one file.               *)
(* SpecScan     the aggregate scans analyze_directory, migration_report    *)
(*              and scan_compat over a directory tree.                     *)
(* SpecTools    every tool of the server on small files and inline code.   *)
(* SpecReport   migration_report over trees with many files with issues.   *)
(* SpecWrite    write_files of the filesystem server.                      *)
(* SpecList     list_project_files of the filesystem server.               *)
(***************************************************************************)
EXTENDS Integers, Sequences, FiniteSets, TLC

VARIABLES
  disk,           \* convert_file: path -> file on disk
  HAS_FISSIX,     \* whether the fissix import succeeded at start-up
  linesep,        \* os.linesep of the platform
  pc,             \* convert_file: position of the running call
  args,           \* arguments of the current (or last) call
  original_code,  \* convert_file: local variable
  converted_code, \* convert_file: local variable
  resp,           \* convert_file: the last response returned
  disk0,          \* history: the disk when the current call was accepted
  fault,          \* history: the I/O step of the current call that failed
  tree,           \* scans: the directory tree on disk
  report,         \* scans: the last response returned
  opened,         \* scans: the files the last call opened for reading, in order
  temps,          \* write_files: the temporary files on disk
  probed          \* write_files: history of the clean-up's os.path.exists tests

vars ==
  <<disk, HAS_FISSIX, linesep, pc, args, original_code, converted_code,
    resp, disk0, fault, tree, report, opened, temps, probed>>

convertVars ==
  <<disk, HAS_FISSIX, linesep, pc, original_code, converted_code,
    resp, disk0, fault>>

scanVars ==
  <<tree, report, opened, temps, probed>>

fileVars ==
  <<temps, probed>>

(***************************************************************************)
(* Bounds of the model and constants of the program.                       *)
(***************************************************************************)
\* longest file content (in characters) convert_file is run on
MaxLen ==
  2

\* LIMITS["max_file_size_bytes"]
max_file_size_bytes ==
  10485760

\* LIMITS["max_files_per_operation"]
max_files_per_operation ==
  1000

\* LIMITS["max_code_length"]
max_code_length ==
  1000000

(***************************************************************************)
(* Text.  A file content is a sequence of characters.  "p" stands for a    *)
(* Python 2 construct the external transform rewrites, "q" for text it     *)
(* leaves alone.                                                           *)
(***************************************************************************)
LF ==
  "\n"

CR ==
  "\r"

Chars ==
  {"p", "q", LF, CR}

Contents ==
  UNION {[1..n -> Chars] : n \in 0..MaxLen}

\* Reading in text mode with newline=None: "\r\n" and a lone "\r" are
\* translated to "\n".
RECURSIVE read_text(_)
read_text(data) ==
  IF data = <<>> THEN <<>>
  ELSE IF data[1] = CR
       THEN IF Len(data) >= 2 /\ data[2] = LF
            THEN <<LF>> \o read_text(SubSeq(data, 3, Len(data)))
            ELSE <<LF>> \o read_text(Tail(data))
       ELSE <<data[1]>> \o read_text(Tail(data))

\* Writing in text mode with newline=None: every "\n" is written as
\* os.linesep.
RECURSIVE write_text(_)
write_text(s) ==
  IF s = <<>> THEN <<>>
  ELSE (IF s[1] = LF THEN linesep ELSE <<s[1]>>) \o write_text(Tail(s))

\* str.rstrip('\n')
RECURSIVE rstrip_nl(_)
rstrip_nl(s) ==
  IF s # <<>> /\ s[Len(s)] = LF THEN rstrip_nl(SubSeq(s, 1, Len(s) - 1)) ELSE s

\* The external transform (fissix RefactoringTool.refactor_string followed by
\* str(tree)): rewrites every Python 2 construct and keeps the rest of the
\* text, its final newline included.  "r" stands for a construct whose
\* rewriting the transform rewrites again when it is run on its own output
\* (raw_input() becomes input(), and input() becomes eval(input())).
refactor_string(s) ==
  [i \in 1..Len(s) |-> IF s[i] = "p" THEN "q" ELSE IF s[i] = "r" THEN "p" ELSE s[i]]

(***************************************************************************)
(* The disk of convert_file.                                               *)
(***************************************************************************)
Absent ==
  [exists |-> FALSE, size |-> 0, data |-> <<>>]

File(data) ==
  [exists |-> TRUE, size |-> Len(data), data |-> data]

\* a file larger than the size limit; its content is never read
Huge ==
  [exists |-> TRUE, size |-> max_file_size_bytes + 1, data |-> <<>>]

FilePaths ==
  {"m.py", "notes.txt", "gone.py"}

\* file_path + '.py2.bak'
backup_path(file_path) ==
  file_path \o ".py2.bak"

Paths ==
  FilePaths \cup {backup_path("m.py")}

\* file_path.endswith('.py')
endswith_py(file_path) ==
  file_path \in {"m.py", "gone.py"}

\* os.path.isfile
isfile(path) ==
  disk[path].exists

\* os.path.getsize
getsize(path) ==
  disk[path].size

(***************************************************************************)
(* Responses (create_response / error_response).                           *)
(***************************************************************************)
NoResp ==
  [tool |-> "", status |-> "", action |-> "", error |-> "", backup_file |-> ""]

\* no response of an aggregate scan yet
NoReport ==
  [tool |-> "none", status |-> ""]

create_response(tool_name, status, action, error, backup_file) ==
  [tool |-> tool_name, status |-> status, action |-> action, error |-> error,
   backup_file |-> backup_file]

error_response(tool_name, exception) ==
  create_response(tool_name, "error", "", exception, "")

\* (mutant of check_file_size: a file of exactly the limit is refused)
check_file_size_inclusive(size, stat_ok, tool_name) ==
  IF ~stat_ok THEN error_response(tool_name, "OSError")
  ELSE IF size >= max_file_size_bytes
       THEN create_response(tool_name, "error", "", "FileSizeLimitExceeded", "")
       ELSE NoResp

\* check_file_size: an error response when the size exceeds the limit or the
\* stat fails, None (NoResp) otherwise
check_file_size(size, stat_ok, tool_name) ==
  IF ~stat_ok THEN error_response(tool_name, "OSError")
  ELSE IF size > max_file_size_bytes
       THEN create_response(tool_name, "error", "", "FileSizeLimitExceeded", "")
       ELSE NoResp

(***************************************************************************)
(* convert_file.                                                           *)
(***************************************************************************)
NoArgs ==
  [file_path |-> "m.py", backup |-> TRUE, dry_run |-> FALSE]

\* a return ends the call: the response goes out and the locals are gone
Return(r) ==
  /\ resp' = r
  /\ pc' = "idle"
  /\ original_code' = <<>>
  /\ converted_code' = <<>>

\* the handler's  except Exception as e: return error_response(...)
Raise(step, exception) ==
  /\ fault' = step
  /\ Return(error_response("convert_file", exception))

\* (mutant of AfterCompare: the backup is taken before dry_run is looked at)
AfterCompareBackupFirst(backup, dry_run) ==
  IF backup THEN "backup_open"
  ELSE IF dry_run THEN "dry_run"
  ELSE "target_open"

\* where the handler goes once it has found that the conversion changes the
\* file: the dry-run return, the backup, or straight to the target
AfterCompare(backup, dry_run) ==
  IF dry_run THEN "dry_run"
  ELSE IF backup THEN "backup_open"
  ELSE "target_open"

\* The call up to its first write: argument checks, the read, the transform
\* and the comparison.  io names the step that fails, if one does.
ConvertCall(file_path, backup, dry_run, io) ==
  /\ pc = "idle"
  /\ UNCHANGED scanVars
  /\ args' = [file_path |-> file_path, backup |-> backup, dry_run |-> dry_run]
  /\ disk0' = disk
  /\ UNCHANGED <<disk, HAS_FISSIX, linesep>>
  /\ LET size_error == check_file_size(getsize(file_path), io # "stat", "convert_file")
         code == read_text(disk[file_path].data)
         conv == rstrip_nl(refactor_string(code \o <<LF>>))
     IN
       IF ~isfile(file_path) THEN
         /\ Return(create_response("convert_file", "error", "", "InvalidFile", ""))
         /\ fault' = "none"
       ELSE IF ~endswith_py(file_path) THEN
         /\ Return(create_response("convert_file", "error", "", "InvalidFileType", ""))
         /\ fault' = "none"
       ELSE IF size_error # NoResp THEN
         /\ Return(size_error)
         /\ fault' = IF io = "stat" THEN "stat" ELSE "none"
       ELSE IF io = "read" THEN
         Raise("read", "OSError")
       ELSE IF ~HAS_FISSIX THEN
         /\ Return(create_response("convert_file", "error", "", "MissingDependency", ""))
         /\ fault' = "none"
       ELSE IF io = "parse" THEN
         Raise("parse", "ParseError")
       ELSE IF conv = code THEN
         /\ Return(create_response("convert_file", "success", "no_changes_needed", "", ""))
         /\ fault' = "none"
       ELSE IF AfterCompare(backup, dry_run) = "dry_run" THEN
         /\ Return(create_response("convert_file", "success", "dry_run", "", ""))
         /\ fault' = "none"
       ELSE
         /\ pc' = AfterCompare(backup, dry_run)
         /\ fault' = "none"
         /\ original_code' = code
         /\ converted_code' = conv
         /\ UNCHANGED resp

\* open(path, 'w'): creates or truncates the file, or raises
OpenForWrite(path, ok, next) ==
  /\ UNCHANGED <<HAS_FISSIX, linesep, args, disk0>>
  /\ IF ok
     THEN /\ disk' = [disk EXCEPT ![path] = File(<<>>)]
          /\ pc' = next
          /\ UNCHANGED <<resp, fault, original_code, converted_code>>
     ELSE /\ Raise(pc, "OSError")
          /\ UNCHANGED disk

\* f.write(text) and the close at the end of the with block: the whole text
\* reaches the file, or the write raises with only the first k characters of it
\* in the file
WriteAndClose(path, text, ok, k) ==
  /\ UNCHANGED <<HAS_FISSIX, linesep, args, disk0>>
  /\ IF ok
     THEN /\ disk' = [disk EXCEPT ![path] = File(write_text(text))]
          /\ UNCHANGED fault
     ELSE /\ disk' = [disk EXCEPT ![path] = File(SubSeq(write_text(text), 1, k))]
          /\ Raise(pc, "OSError")

\* with open(backup_path, 'w', encoding='utf-8') as f:
BackupOpen(ok) ==
  /\ pc = "backup_open"
  /\ UNCHANGED scanVars
  /\ OpenForWrite(backup_path(args.file_path), ok, "backup_write")

\* (mutant of BackupWrite: a failed backup write is swallowed and the handler
\* goes on to the target)
BackupWriteSwallowed(ok, k) ==
  /\ pc = "backup_write"
  /\ UNCHANGED scanVars
  /\ k <= Len(write_text(original_code))
  /\ UNCHANGED <<HAS_FISSIX, linesep, args, disk0, resp, original_code, converted_code>>
  /\ disk' = [disk EXCEPT ![backup_path(args.file_path)] =
                 File(IF ok THEN write_text(original_code)
                      ELSE SubSeq(write_text(original_code), 1, k))]
  /\ fault' = IF ok THEN fault ELSE "backup_write"
  /\ pc' = "target_open"

\*     f.write(original_code)
BackupWrite(ok, k) ==
  /\ pc = "backup_write"
  /\ UNCHANGED scanVars
  /\ k <= Len(write_text(original_code))
  /\ WriteAndClose(backup_path(args.file_path), original_code, ok, k)
  /\ ok => /\ pc' = "target_open"
           /\ UNCHANGED <<resp, original_code, converted_code>>

\* with open(file_path, 'w', encoding='utf-8') as f:
TargetOpen(ok) ==
  /\ pc = "target_open"
  /\ UNCHANGED scanVars
  /\ OpenForWrite(args.file_path, ok, "target_write")

\*     f.write(converted_code), then the "converted" response
TargetWrite(ok, k) ==
  /\ pc = "target_write"
  /\ UNCHANGED scanVars
  /\ k <= Len(write_text(converted_code))
  /\ WriteAndClose(args.file_path, converted_code, ok, k)
  /\ ok => Return(create_response("convert_file", "success", "converted", "",
                    IF args.backup THEN backup_path(args.file_path) ELSE ""))

\* The server process dies in the middle of a call (kill, power loss): no
\* response, and the disk stays as the last completed step left it.
Crash ==
  /\ pc \in {"backup_open", "backup_write", "target_open", "target_write"}
  /\ pc' = "crashed"
  /\ UNCHANGED scanVars
  /\ UNCHANGED <<disk, HAS_FISSIX, linesep, args, original_code, converted_code,
                 resp, disk0, fault>>

InitConvert ==
  /\ disk \in [Paths -> {Absent, Huge} \cup {File(c) : c \in Contents}]
  /\ disk["notes.txt"] = File(<<"q">>)
  /\ disk["gone.py"] = Absent
  /\ disk["m.py"] # Absent
  /\ disk[backup_path("m.py")] \in {Absent, File(<<"p">>)}
  /\ HAS_FISSIX \in BOOLEAN
  /\ linesep \in {<<LF>>, <<CR, LF>>}
  /\ pc = "idle"
  /\ args = NoArgs
  /\ original_code = <<>>
  /\ converted_code = <<>>
  /\ resp = NoResp
  /\ disk0 = disk
  /\ fault = "none"
  /\ tree = [pad |-> 0, tail |-> <<>>]
  /\ report = NoReport
  /\ opened = <<>>
  /\ temps = {}
  /\ probed = {}

NextConvert ==
  \/ \E file_path \in FilePaths, backup \in BOOLEAN, dry_run \in BOOLEAN,
        io \in {"ok", "stat", "read", "parse"} :
       ConvertCall(file_path, backup, dry_run, io)
  \/ \E ok \in BOOLEAN : BackupOpen(ok)
  \/ \E ok \in BOOLEAN, k \in 0..(2 * MaxLen) : BackupWrite(ok, k)
  \/ \E ok \in BOOLEAN : TargetOpen(ok)
  \/ \E ok \in BOOLEAN, k \in 0..(2 * MaxLen) : TargetWrite(ok, k)
  \/ Crash

SpecConvert ==
  InitConvert /\ [][NextConvert]_vars

(***************************************************************************)
(* Repeated conversions of one file: every call is convert_file on m.py    *)
(* with backup true and dry_run false, and every step of it succeeds.      *)
(***************************************************************************)
\* the contents of m.py before the first call
BackupContents ==
  UNION {[1..n -> {"r", "p", "q", LF}] : n \in 1..MaxLen}

InitBackup ==
  /\ disk \in [Paths -> {Absent} \cup {File(c) : c \in BackupContents \cup {<<"q">>}}]
  /\ disk["notes.txt"] = File(<<"q">>)
  /\ disk["gone.py"] = Absent
  /\ disk["m.py"].data \in BackupContents
  /\ disk[backup_path("m.py")] = Absent
  /\ HAS_FISSIX = TRUE
  /\ linesep \in {<<LF>>, <<CR, LF>>}
  /\ pc = "idle"
  /\ args = NoArgs
  /\ original_code = <<>>
  /\ converted_code = <<>>
  /\ resp = NoResp
  /\ disk0 = disk
  /\ fault = "none"
  /\ tree = [pad |-> 0, tail |-> <<>>]
  /\ report = NoReport
  /\ opened = <<>>
  /\ temps = {}
  /\ probed = {}

NextBackup ==
  \/ \E file_path \in {"m.py"} : ConvertCall(file_path, TRUE, FALSE, "ok")
  \/ \E ok \in {TRUE} : BackupOpen(ok)
  \/ \E ok \in {TRUE}, k \in {0} : BackupWrite(ok, k)
  \/ \E ok \in {TRUE} : TargetOpen(ok)
  \/ \E ok \in {TRUE}, k \in {0} : TargetWrite(ok, k)

SpecBackup ==
  InitBackup /\ [][NextBackup]_vars

(***************************************************************************)
(* The aggregate scans.  A file content is a sequence of lines taken from  *)
(* SampleLines, with or without a final newline; what the regular          *)
(* expressions of the two pattern tables match on each sample line is      *)
(* tabulated in PY2_MATCHES and COMPAT_MATCHES.  The scans leave the tree   *)
(* as it is, so a behaviour serves one request.                            *)
(***************************************************************************)
SampleLines ==
  {"",
   "x = 1",
   "#!/usr/bin/python",
   "print coding",
   "print x",
   "for k in d.iteritems(): print k",
   "if a <> b <> c: raise E, msg",
   "exec code",
   "cmp=f",
   "#!cmp=f",
   "cmp=coding",
   "y = a / b",
   "x = ("}

\* the keys of PY2_PATTERNS, in the order of the dict
PY2_PATTERNS ==
  <<"print_statement", "raw_input", "execfile", "unicode_literal",
    "unicode_type", "basestring", "backticks", "long_suffix",
    "old_octal", "xrange", "reduce", "apply",
    "cmp_func", "coerce", "intern", "file_builtin",
    "buffer_builtin", "iteritems", "iterkeys", "itervalues",
    "has_key", "viewitems", "viewkeys", "viewvalues",
    "old_ne", "except_comma", "old_raise", "old_repr",
    "configparser", "queue_module", "urllib2", "urlparse",
    "stringio", "cstringio", "cpickle", "tkinter",
    "http_cookiejar", "thread_module", "commands_module", "htmlparser",
    "httplib">>

\* the entries of COMPAT_PATTERNS, in the order of the dict
COMPAT_PATTERNS ==
  <<[name |-> "xrange", code |-> "PY2-ITER-001", severity |-> "error", category |-> "iterators"],
    [name |-> "iteritems", code |-> "PY2-ITER-002", severity |-> "error", category |-> "iterators"],
    [name |-> "itervalues", code |-> "PY2-ITER-003", severity |-> "error", category |-> "iterators"],
    [name |-> "iterkeys", code |-> "PY2-ITER-004", severity |-> "error", category |-> "iterators"],
    [name |-> "has_key", code |-> "PY2-ITER-005", severity |-> "error", category |-> "iterators"],
    [name |-> "unicode_type", code |-> "PY2-TYPE-001", severity |-> "error", category |-> "text-types"],
    [name |-> "long_type", code |-> "PY2-TYPE-002", severity |-> "error", category |-> "text-types"],
    [name |-> "basestring", code |-> "PY2-TYPE-003", severity |-> "error", category |-> "text-types"],
    [name |-> "unicode_literal", code |-> "PY2-TYPE-004", severity |-> "info", category |-> "text-types"],
    [name |-> "old_ne", code |-> "PY2-OP-001", severity |-> "error", category |-> "operators"],
    [name |-> "backticks", code |-> "PY2-OP-002", severity |-> "error", category |-> "operators"],
    [name |-> "print_statement", code |-> "PY2-SYN-001", severity |-> "error", category |-> "syntax"],
    [name |-> "except_comma", code |-> "PY2-SYN-002", severity |-> "error", category |-> "syntax"],
    [name |-> "old_raise", code |-> "PY2-SYN-003", severity |-> "error", category |-> "syntax"],
    [name |-> "exec_statement", code |-> "PY2-SYN-004", severity |-> "error", category |-> "syntax"],
    [name |-> "ConfigParser", code |-> "PY2-LIB-001", severity |-> "error", category |-> "stdlib-move"],
    [name |-> "StringIO", code |-> "PY2-LIB-002", severity |-> "error", category |-> "stdlib-move"],
    [name |-> "cStringIO", code |-> "PY2-LIB-003", severity |-> "error", category |-> "stdlib-move"],
    [name |-> "cPickle", code |-> "PY2-LIB-004", severity |-> "error", category |-> "stdlib-move"],
    [name |-> "Queue", code |-> "PY2-LIB-005", severity |-> "error", category |-> "stdlib-move"],
    [name |-> "urllib2", code |-> "PY2-LIB-006", severity |-> "error", category |-> "stdlib-move"],
    [name |-> "urlparse", code |-> "PY2-LIB-007", severity |-> "error", category |-> "stdlib-move"],
    [name |-> "httplib", code |-> "PY2-LIB-008", severity |-> "error", category |-> "stdlib-move"],
    [name |-> "HTMLParser", code |-> "PY2-LIB-009", severity |-> "error", category |-> "stdlib-move"],
    [name |-> "raw_input", code |-> "PY2-BUILTIN-001", severity |-> "error", category |-> "builtins"],
    [name |-> "execfile", code |-> "PY2-BUILTIN-002", severity |-> "error", category |-> "builtins"],
    [name |-> "reduce", code |-> "PY2-BUILTIN-003", severity |-> "warning", category |-> "builtins"],
    [name |-> "apply", code |-> "PY2-BUILTIN-004", severity |-> "error", category |-> "builtins"],
    [name |-> "file_builtin", code |-> "PY2-BUILTIN-005", severity |-> "error", category |-> "builtins"],
    [name |-> "cmp_func", code |-> "PY2-BUILTIN-006", severity |-> "error", category |-> "builtins"]>>

\* the categories dict of migration_report
categories ==
  <<[cat |-> "Print/IO",
     patterns |-> {"print_statement", "raw_input", "execfile"}],
    [cat |-> "String/Unicode",
     patterns |-> {"unicode_literal", "unicode_type", "basestring", "backticks", "old_repr"}],
    [cat |-> "Numbers",
     patterns |-> {"long_suffix", "old_octal"}],
    [cat |-> "Builtins",
     patterns |-> {"xrange", "reduce", "apply", "cmp_func", "coerce", "intern", "file_builtin", "buffer_builtin"}],
    [cat |-> "Dict methods",
     patterns |-> {"iteritems", "iterkeys", "itervalues", "has_key", "viewitems", "viewkeys", "viewvalues"}],
    [cat |-> "Syntax",
     patterns |-> {"old_ne", "except_comma", "old_raise"}],
    [cat |-> "Imports",
     patterns |-> {"configparser", "queue_module", "urllib2", "urlparse", "stringio", "cstringio", "cpickle", "tkinter", "http_cookiejar", "thread_module", "commands_module", "htmlparser", "httplib"}]>>

\* re.search(PY2_PATTERNS[name], line): the names that match each sample line
PY2_MATCHES ==
  "" :> {} @@
  "x = 1" :> {} @@
  "#!/usr/bin/python" :> {} @@
  "print coding" :> {"print_statement"} @@
  "print x" :> {"print_statement"} @@
  "for k in d.iteritems(): print k" :> {"print_statement", "iteritems"} @@
  "if a <> b <> c: raise E, msg" :> {"old_ne", "old_raise"} @@
  "exec code" :> {} @@
  "cmp=f" :> {"cmp_func"} @@
  "#!cmp=f" :> {"cmp_func"} @@
  "cmp=coding" :> {"cmp_func"} @@
  "y = a / b" :> {} @@
  "x = (" :> {}

\* re.search(COMPAT_PATTERNS[name]["pattern"], line): the names that match
\* each sample line
COMPAT_MATCHES ==
  "" :> {} @@
  "x = 1" :> {} @@
  "#!/usr/bin/python" :> {} @@
  "print coding" :> {"print_statement"} @@
  "print x" :> {"print_statement"} @@
  "for k in d.iteritems(): print k" :> {"iteritems", "print_statement"} @@
  "if a <> b <> c: raise E, msg" :> {"old_ne", "old_raise"} @@
  "exec code" :> {"exec_statement"} @@
  "cmp=f" :> {} @@
  "#!cmp=f" :> {} @@
  "cmp=coding" :> {} @@
  "y = a / b" :> {} @@
  "x = (" :> {}

\* line.startswith('#!') or 'coding' in line
looks_like_header(line) ==
  line \in {"#!/usr/bin/python", "print coding", "#!cmp=f", "cmp=coding"}

\* the entries of validate_conversion's runtime_patterns, in the order of the dict
runtime_patterns ==
  <<[issue |-> "exec() usage", severity |-> "high"],
    [issue |-> "eval() usage", severity |-> "medium"],
    [issue |-> "Division operator", severity |-> "high"],
    [issue |-> "File operations", severity |-> "medium"],
    [issue |-> "String encoding/decoding", severity |-> "medium"],
    [issue |-> "Pickle usage", severity |-> "medium"],
    [issue |-> "Socket operations", severity |-> "medium"],
    [issue |-> "Subprocess calls", severity |-> "low"],
    [issue |-> "Standard streams", severity |-> "low"],
    [issue |-> "Old metaclass syntax", severity |-> "high"],
    [issue |-> "sort() with cmp parameter", severity |-> "high"]>>

\* re.search(pattern, line) for the keys of runtime_patterns: the issues whose
\* pattern matches each sample line
RUNTIME_MATCHES ==
  "" :> {} @@
  "x = 1" :> {} @@
  "#!/usr/bin/python" :> {"Division operator"} @@
  "print coding" :> {} @@
  "print x" :> {} @@
  "for k in d.iteritems(): print k" :> {} @@
  "if a <> b <> c: raise E, msg" :> {} @@
  "exec code" :> {} @@
  "cmp=f" :> {} @@
  "#!cmp=f" :> {} @@
  "cmp=coding" :> {} @@
  "y = a / b" :> {"Division operator"} @@
  "x = (" :> {}

\* ast.parse: the sample lines that are a statement (or a comment, or blank) of
\* Python 3; a text of sample lines parses when each of its lines does
PARSES ==
  {"", "x = 1", "#!/usr/bin/python", "cmp=f", "#!cmp=f", "cmp=coding", "y = a / b"}

\* convert_print_statements: the line appended to converted for each sample line
PRINT_CONVERTED ==
  "" :> "" @@
  "x = 1" :> "x = 1" @@
  "#!/usr/bin/python" :> "#!/usr/bin/python" @@
  "print coding" :> "print(coding)" @@
  "print x" :> "print(x)" @@
  "for k in d.iteritems(): print k" :> "for k in d.iteritems(): print k" @@
  "if a <> b <> c: raise E, msg" :> "if a <> b <> c: raise E, msg" @@
  "exec code" :> "exec code" @@
  "cmp=f" :> "cmp=f" @@
  "#!cmp=f" :> "#!cmp=f" @@
  "cmp=coding" :> "cmp=coding" @@
  "y = a / b" :> "y = a / b" @@
  "x = (" :> "x = ("

\* code.split('\n')
split_nl(text) ==
  IF text.nl \/ text.lines = <<>> THEN Append(text.lines, "") ELSE text.lines

\* f.readlines()
readlines(text) ==
  text.lines

\* (mutant of skip_line: a header-like line is skipped wherever it stands)
skip_line_any_index(i, line) ==
  looks_like_header(line)

\* the scan loops' test  i <= 2 and (line.startswith('#!') or 'coding' in line)
skip_line(i, line) ==
  i <= 2 /\ looks_like_header(line)

RECURSIVE SumOver(_, _)
SumOver(S, f) ==
  IF S = {} THEN 0
  ELSE LET x == CHOOSE y \in S : TRUE IN f[x] + SumOver(S \ {x}, f)

RECURSIVE SumSeq(_)
SumSeq(s) ==
  IF s = <<>> THEN 0 ELSE s[1] + SumSeq(Tail(s))

Range(s) ==
  {s[i] : i \in 1..Len(s)}

\* migration_report's file_issues: for every pattern name, the number of
\* scanned lines it matches (0 stands for a key the dict does not hold)
py2_issues(lines) ==
  [name \in Range(PY2_PATTERNS) |->
     Cardinality({i \in 1..Len(lines) :
                    ~skip_line(i, lines[i]) /\ name \in PY2_MATCHES[lines[i]]})]

\* analyze_directory's file_issues: one per scanned line and matching pattern
py2_issue_count(lines) ==
  SumSeq([i \in 1..Len(lines) |->
            IF skip_line(i, lines[i]) THEN 0 ELSE Cardinality(PY2_MATCHES[lines[i]])])

\* (mutant of compat_issues: the loop over the rules stops at the first rule
\* that matches the line)
RECURSIVE compat_issues_first_rule(_, _, _)
compat_issues_first_rule(filepath, lines, line_num) ==
  IF line_num > Len(lines) THEN <<>>
  ELSE LET line == lines[line_num]
           hits == IF skip_line(line_num, line) THEN <<>>
                   ELSE SelectSeq(COMPAT_PATTERNS,
                                  LAMBDA pattern_info : pattern_info.name \in COMPAT_MATCHES[line])
           here == [j \in 1..(IF hits = <<>> THEN 0 ELSE 1) |->
                      [file |-> filepath, line |-> line_num, code |-> hits[j].code,
                       severity |-> hits[j].severity, category |-> hits[j].category,
                       source |-> line]]
       IN here \o compat_issues_first_rule(filepath, lines, line_num + 1)

\* scan_compat's issues of one file: in line order and, within a line, in the
\* order of COMPAT_PATTERNS
RECURSIVE compat_issues(_, _, _)
compat_issues(filepath, lines, line_num) ==
  IF line_num > Len(lines) THEN <<>>
  ELSE LET line == lines[line_num]
           hits == IF skip_line(line_num, line) THEN <<>>
                   ELSE SelectSeq(COMPAT_PATTERNS,
                                  LAMBDA pattern_info : pattern_info.name \in COMPAT_MATCHES[line])
           here == [j \in 1..Len(hits) |->
                      [file |-> filepath, line |-> line_num, code |-> hits[j].code,
                       severity |-> hits[j].severity, category |-> hits[j].category,
                       source |-> line]]
       IN here \o compat_issues(filepath, lines, line_num + 1)

(***************************************************************************)
(* The directory tree.  A tree is a run of tree.pad clean .py files        *)
(* followed by the files of tree.tail, in the order os.walk yields them; a *)
(* file's name is its position in that order.                              *)
(***************************************************************************)
\* longest tail of a tree
MaxTail ==
  2

CleanText ==
  [lines |-> <<"x = 1">>, nl |-> TRUE]

OneText ==
  [lines |-> <<"print x">>, nl |-> FALSE]

DirtyText ==
  [lines |-> <<"#!/usr/bin/python", "print coding",
               "for k in d.iteritems(): print k", "if a <> b <> c: raise E, msg", "exec code", "cmp=f">>,
   nl |-> TRUE]

\* py: the name ends with '.py'; pruned: the file lies in a directory the
\* exclude list removes from the walk; isfile, stat_ok, read_ok: whether
\* os.path.isfile holds and os.path.getsize and open/read succeed
CleanFile ==
  [py |-> TRUE, pruned |-> FALSE, isfile |-> TRUE, stat_ok |-> TRUE,
   size |-> 6, read_ok |-> TRUE, text |-> CleanText]

\* the files of a tail (clean files are those of the pad)
FileKinds ==
  { [CleanFile EXCEPT !.text = OneText, !.size = 10],
    [CleanFile EXCEPT !.text = DirtyText, !.size = max_file_size_bytes],
    [CleanFile EXCEPT !.text = DirtyText, !.size = max_file_size_bytes + 1],
    [CleanFile EXCEPT !.text = DirtyText, !.size = 90, !.read_ok = FALSE],
    [CleanFile EXCEPT !.isfile = FALSE, !.stat_ok = FALSE, !.read_ok = FALSE],
    [CleanFile EXCEPT !.py = FALSE, !.text = DirtyText, !.size = 90],
    [CleanFile EXCEPT !.pruned = TRUE, !.text = OneText, !.size = 10] }

\* the lengths of the run of clean files: none, one, and one short of the
\* file-count limit
Pads ==
  {0, 1, max_files_per_operation - 1}

Trees ==
  [pad : Pads,
   tail : UNION {[1..n -> FileKinds] : n \in 0..MaxTail}]

NFiles ==
  tree.pad + Len(tree.tail)

\* a name that no file of the tree bears
MissingFile ==
  [CleanFile EXCEPT !.isfile = FALSE, !.stat_ok = FALSE, !.read_ok = FALSE]

FileAt(i) ==
  IF i <= tree.pad THEN CleanFile
  ELSE IF i <= NFiles THEN tree.tail[i - tree.pad]
  ELSE MissingFile

(***************************************************************************)
(* The files and the inline code of the single-file tools.                 *)
(***************************************************************************)
\* longest content (in lines) of the file or code a single-file tool is given
MaxLines ==
  3

\* longest content (in lines) of the two files conversion_report is given
MaxPairLines ==
  2

ToolLines ==
  {"x = 1", "cmp=f", "#!cmp=f", "cmp=coding", "print coding", "y = a / b", "print x",
   "x = ("}

PairLines ==
  {"cmp=f", "print x", "x = ("}

ToolTexts ==
  {[lines |-> l, nl |-> TRUE] : l \in UNION {[1..n -> ToolLines] : n \in 0..MaxLines}}

PairTexts ==
  {[lines |-> l, nl |-> TRUE] : l \in UNION {[1..n -> PairLines] : n \in 0..MaxPairLines}}

ToolFile(text) ==
  [CleanFile EXCEPT !.text = text, !.size = 20]

\* a directory with one file, or with an original and a converted file
ToolTrees ==
  {[pad |-> 0, tail |-> <<ToolFile(t)>>] : t \in ToolTexts}
    \cup {[pad |-> 0, tail |-> <<ToolFile(o), ToolFile(c)>>] : o \in PairTexts, c \in PairTexts}

(***************************************************************************)
(* The trees of the report claims: a run of equal files followed by a few  *)
(* files of different issue counts and line counts.                        *)
(***************************************************************************)
\* three issues in four lines
ThreeText ==
  [lines |-> <<"cmp=f", "cmp=f", "cmp=f">>, nl |-> TRUE]

\* five issues in three lines
DenseText ==
  [lines |-> <<"for k in d.iteritems(): print k", "for k in d.iteritems(): print k", "cmp=f">>,
   nl |-> FALSE]

\* six issues in nine lines
SparseText ==
  [lines |-> <<"if a <> b <> c: raise E, msg", "if a <> b <> c: raise E, msg",
               "if a <> b <> c: raise E, msg", "x = 1", "x = 1", "x = 1", "x = 1", "x = 1",
               "x = 1">>,
   nl |-> FALSE]

\* a file of zero bytes
EmptyText ==
  [lines |-> <<>>, nl |-> FALSE]

ReportKinds ==
  { [CleanFile EXCEPT !.text = OneText, !.size = 10],
    [CleanFile EXCEPT !.text = ThreeText, !.size = 18],
    [CleanFile EXCEPT !.text = DirtyText, !.size = 90],
    [CleanFile EXCEPT !.text = DenseText, !.size = 70],
    [CleanFile EXCEPT !.text = SparseText, !.size = 120],
    [CleanFile EXCEPT !.text = EmptyText, !.size = 0] }

\* the runs: their lengths, and the file they repeat
ReportRuns ==
  {<<>>}
    \cup {[k \in 1..n |-> [CleanFile EXCEPT !.text = t, !.size = 50]] :
            n \in {4, 19, 20, 39}, t \in {OneText, SparseText}}

ReportTrees ==
  {[pad |-> 0, tail |-> run \o last] :
     run \in ReportRuns, last \in UNION {[1..n -> ReportKinds] : n \in 0..MaxTail}}

\* the contents a file of the tree can hold
Texts ==
  {CleanText, OneText, DirtyText, ThreeText, DenseText, SparseText, EmptyText}
    \cup ToolTexts \cup PairTexts

\* analyze_directory's count of one file, for every content
file_issue_count ==
  [text \in Texts |-> py2_issue_count(split_nl(text))]

\* migration_report's file_issues, sum(file_issues.values()) and len(lines) of
\* one file, for every content
file_issue_dict ==
  [text \in Texts |->
     LET file_issues == py2_issues(split_nl(text))
     IN [issues |-> file_issues,
         total |-> SumOver(DOMAIN file_issues, file_issues),
         lines |-> Len(split_nl(text))]]

\* scan_compat's issues of one file, for every content
file_compat_issues ==
  [text \in Texts |-> compat_issues(0, readlines(text), 1)]

InvalidDirectory(name) ==
  [tool |-> name, status |-> "error", error |-> "InvalidDirectory"]

\* (mutant of Take: the slice keeps one element more)
Take_one_more(s, n) ==
  SubSeq(s, 1, IF Len(s) < n + 1 THEN Len(s) ELSE n + 1)

Take(s, n) ==
  SubSeq(s, 1, IF Len(s) < n THEN Len(s) ELSE n)

\* (mutant of cap_reached: the limit is noticed one file late)
cap_reached_late(files_scanned) ==
  files_scanned > max_files_per_operation

\* files_scanned >= LIMITS["max_files_per_operation"]
cap_reached(files_scanned) ==
  files_scanned >= max_files_per_operation

\* (mutant of analyze_file: a file that cannot be read leaves no entry)
analyze_file_drops_error(acc, i) ==
  LET f == FileAt(i) IN
  IF f.pruned \/ ~f.py THEN acc
  ELSE IF cap_reached(acc.files_scanned)
  THEN [acc EXCEPT !.skipped_files = Append(@, i)]
  ELSE IF check_file_size(f.size, f.stat_ok, "analyze_directory") # NoResp
  THEN [acc EXCEPT !.results = Append(@, [file |-> i, issues |-> 0,
                                           status |-> "Skipped: file too large"])]
  ELSE IF ~f.read_ok
  THEN [acc EXCEPT !.opened = Append(@, i)]
  ELSE LET file_issues == file_issue_count[f.text] IN
       [acc EXCEPT
          !.opened = Append(@, i),
          !.results = IF file_issues > 0
                      THEN Append(@, [file |-> i, issues |-> file_issues, status |-> ""])
                      ELSE @,
          !.total_issues = IF file_issues > 0 THEN @ + file_issues ELSE @,
          !.files_with_issues = IF file_issues > 0 THEN @ + 1 ELSE @,
          !.files_scanned = @ + 1]

(***************************************************************************)
(* analyze_directory.                                                      *)
(***************************************************************************)
\* (mutant of analyze_file: a file skipped for its size counts as a file with
\* issues)
analyze_file_counts_skipped(acc, i) ==
  LET f == FileAt(i) IN
  IF f.pruned \/ ~f.py THEN acc
  ELSE IF cap_reached(acc.files_scanned)
  THEN [acc EXCEPT !.skipped_files = Append(@, i)]
  ELSE IF check_file_size(f.size, f.stat_ok, "analyze_directory") # NoResp
  THEN [acc EXCEPT !.results = Append(@, [file |-> i, issues |-> 0,
                                           status |-> "Skipped: file too large"]),
                   !.files_with_issues = @ + 1]
  ELSE IF ~f.read_ok
  THEN [acc EXCEPT !.opened = Append(@, i),
                   !.results = Append(@, [file |-> i, issues |-> 0, status |-> "Error"])]
  ELSE LET file_issues == file_issue_count[f.text] IN
       [acc EXCEPT
          !.opened = Append(@, i),
          !.results = IF file_issues > 0
                      THEN Append(@, [file |-> i, issues |-> file_issues, status |-> ""])
                      ELSE @,
          !.total_issues = IF file_issues > 0 THEN @ + file_issues ELSE @,
          !.files_with_issues = IF file_issues > 0 THEN @ + 1 ELSE @,
          !.files_scanned = @ + 1]

\* the body of the loop over the files of the walk, for the file at position i
analyze_file(acc, i) ==
  LET f == FileAt(i) IN
  IF f.pruned \/ ~f.py THEN acc
  ELSE IF cap_reached(acc.files_scanned)
  THEN [acc EXCEPT !.skipped_files = Append(@, i)]
  ELSE IF check_file_size(f.size, f.stat_ok, "analyze_directory") # NoResp
  THEN [acc EXCEPT !.results = Append(@, [file |-> i, issues |-> 0,
                                           status |-> "Skipped: file too large"])]
  ELSE IF ~f.read_ok
  THEN [acc EXCEPT !.opened = Append(@, i),
                   !.results = Append(@, [file |-> i, issues |-> 0, status |-> "Error"])]
  ELSE LET file_issues == file_issue_count[f.text] IN
       [acc EXCEPT
          !.opened = Append(@, i),
          !.results = IF file_issues > 0
                      THEN Append(@, [file |-> i, issues |-> file_issues, status |-> ""])
                      ELSE @,
          !.total_issues = IF file_issues > 0 THEN @ + file_issues ELSE @,
          !.files_with_issues = IF file_issues > 0 THEN @ + 1 ELSE @,
          !.files_scanned = @ + 1]

\* the loop over the files lo..hi of the walk, in order
RECURSIVE analyze_walk(_, _, _)
analyze_walk(acc, lo, hi) ==
  IF lo > hi THEN acc
  ELSE IF lo = hi THEN analyze_file(acc, lo)
  ELSE LET mid == (lo + hi) \div 2
           first == analyze_walk(acc, lo, mid)
       IN IF first.files_scanned >= 0 THEN analyze_walk(first, mid + 1, hi) ELSE acc

\* results.sort(key=lambda x: x[1] if isinstance(x[1], int) else 0, reverse=True):
\* a stable sort, largest issue count first
RECURSIVE sort_by_issues(_)
sort_by_issues(results) ==
  IF results = <<>> THEN <<>>
  ELSE LET rest == sort_by_issues(Tail(results))
           x == results[1]
           n == Cardinality({j \in 1..Len(rest) : rest[j].issues > x.issues})
       IN SubSeq(rest, 1, n) \o <<x>> \o SubSeq(rest, n + 1, Len(rest))

skipped_reason(skipped_files) ==
  IF skipped_files # <<>> THEN "Exceeded max_files_per_operation limit" ELSE ""

AnalyzeDirectory(path) ==
  /\ report = NoReport
  /\ UNCHANGED <<convertVars, tree, fileVars>>
  /\ args' = [path |-> path]
  /\ IF path # "proj"
     THEN /\ report' = InvalidDirectory("analyze_directory")
          /\ opened' = <<>>
     ELSE LET acc == analyze_walk([results |-> <<>>, total_issues |-> 0,
                                   files_with_issues |-> 0, files_scanned |-> 0,
                                   skipped_files |-> <<>>, opened |-> <<>>], 1, NFiles)
          IN /\ opened' = acc.opened
             /\ report' =
                  [tool |-> "analyze_directory", status |-> "success",
                   files_scanned |-> acc.files_scanned,
                   files_with_issues |-> acc.files_with_issues,
                   total_issues |-> acc.total_issues,
                   files |-> sort_by_issues(acc.results),
                   skipped_count |-> Len(acc.skipped_files),
                   skipped_reason |-> skipped_reason(acc.skipped_files)]

(***************************************************************************)
(* migration_report.  A key the response lacks (additional_files when at   *)
(* most 20 files need changes) is modelled as 0.                           *)
(***************************************************************************)
\* the names of the categories dict, and the first category that lists a
\* pattern (the inner loop breaks at the first hit)
CategoryNames ==
  {categories[k].cat : k \in 1..Len(categories)}

category_of(pattern) ==
  LET hits == {k \in 1..Len(categories) : pattern \in categories[k].patterns}
  IN IF hits = {} THEN "none"
     ELSE categories[CHOOSE k \in hits : \A j \in hits : k <= j].cat

\* category_totals after the loop over file_issues.items()
add_categories(category_totals, file_issues) ==
  [cat \in CategoryNames |->
     category_totals[cat]
       + SumOver({p \in DOMAIN file_issues : category_of(p) = cat}, file_issues)]

\* what the loop over file_issues.items() adds to category_totals, for every
\* content
file_category_counts ==
  [text \in Texts |->
     add_categories([cat \in CategoryNames |-> 0], file_issue_dict[text].issues)]

\* the body of the loop over the files of the walk, for the file at position i
report_file(acc, i) ==
  LET f == FileAt(i) IN
  IF f.pruned \/ ~f.py THEN acc
  ELSE IF cap_reached(acc.files_scanned)
  THEN [acc EXCEPT !.skipped_files = Append(@, i)]
  ELSE IF ~f.stat_ok \/ f.size > max_file_size_bytes THEN acc
  ELSE IF ~f.read_ok THEN [acc EXCEPT !.opened = Append(@, i)]
  ELSE LET file_issues == file_issue_dict[f.text].issues
           issue_count == file_issue_dict[f.text].total
       IN IF issue_count = 0
          THEN [acc EXCEPT !.opened = Append(@, i), !.files_scanned = @ + 1]
          ELSE [acc EXCEPT
                  !.opened = Append(@, i),
                  !.file_data = Append(@, [path |-> i, issues |-> file_issues,
                                           total |-> issue_count,
                                           lines |-> file_issue_dict[f.text].lines]),
                  !.total_issues = @ + issue_count,
                  !.category_totals =
                    [cat \in CategoryNames |-> @[cat] + file_category_counts[f.text][cat]],
                  !.files_scanned = @ + 1]

RECURSIVE report_walk(_, _, _)
report_walk(acc, lo, hi) ==
  IF lo > hi THEN acc
  ELSE IF lo = hi THEN report_file(acc, lo)
  ELSE LET mid == (lo + hi) \div 2
           first == report_walk(acc, lo, mid)
       IN IF first.files_scanned >= 0 THEN report_walk(first, mid + 1, hi) ELSE acc

\* file_data.sort(key=lambda x: x['total'], reverse=True)
RECURSIVE sort_by_total(_)
sort_by_total(file_data) ==
  IF file_data = <<>> THEN <<>>
  ELSE LET rest == sort_by_total(Tail(file_data))
           x == file_data[1]
           n == Cardinality({j \in 1..Len(rest) : rest[j].total > x.total})
       IN SubSeq(rest, 1, n) \o <<x>> \o SubSeq(rest, n + 1, Len(rest))

file_and_issues(fds) ==
  [k \in 1..Len(fds) |-> [file |-> fds[k].path, issues |-> fds[k].total]]

\* f"{(n/d*100):.1f}", in tenths of a percent: the nearest tenth, the even one
\* of two that are equally near
percent_tenths(n, d) ==
  LET q == (1000 * n) \div d
      r == (1000 * n) % d
  IN IF 2 * r > d THEN q + 1
     ELSE IF 2 * r < d THEN q
     ELSE IF q % 2 = 0 THEN q ELSE q + 1

\* round(total / lines * 100, 1) if lines > 0 else 0, in tenths of a percent
density(fd) ==
  IF fd.lines > 0 THEN percent_tenths(fd.total, fd.lines) ELSE 0

\* the sort key  x['total'] / x['lines'] if x['lines'] > 0 else 0  as a
\* fraction, and its order
density_key(fd) ==
  IF fd.lines > 0 THEN [num |-> fd.total, den |-> fd.lines] ELSE [num |-> 0, den |-> 1]

key_greater(a, b) ==
  density_key(a).num * density_key(b).den > density_key(b).num * density_key(a).den

\* (mutant of sort_by_density: the files keep the order of file_data)
sort_by_density_unsorted(fds) ==
  fds

\* sorted(..., key=density key, reverse=True); files of equal key keep their
\* order
RECURSIVE sort_by_density(_)
sort_by_density(fds) ==
  IF fds = <<>> THEN <<>>
  ELSE LET rest == sort_by_density(Tail(fds))
           x == fds[1]
           n == Cardinality({j \in 1..Len(rest) : key_greater(rest[j], x)})
       IN SubSeq(rest, 1, n) \o <<x>> \o SubSeq(rest, n + 1, Len(rest))

\* the totals at which hours / 8 lies halfway between two tenths and the
\* floating-point value formats to the upper one (totals up to 500)
DAYS_ROUNDED_UP ==
  {252, 324, 372, 420, 444}

\* f"{x:.1f}" for x = n / d, in tenths
one_decimal(n, d, ties_up) ==
  LET q == (10 * n) \div d
      r == (10 * n) % d
  IN IF 2 * r > d THEN q + 1
     ELSE IF 2 * r < d THEN q
     ELSE IF ties_up THEN q + 1 ELSE q

\* (mutant of estimated_effort: eight hours are still shown as hours)
estimated_effort_late_days(total_issues) ==
  IF total_issues * 2 < 60
  THEN [band |-> "minutes", amount |-> total_issues * 2]
  ELSE IF total_issues * 2 <= 480
  THEN [band |-> "hours", amount |-> one_decimal(total_issues * 2, 60, FALSE)]
  ELSE [band |-> "days",
        amount |-> one_decimal(total_issues * 2, 480, total_issues \in DAYS_ROUNDED_UP)]

\* effort: hours = (total_issues * 2) / 60, shown as whole minutes below one
\* hour, as hours with one decimal below eight hours, else as days of eight
\* hours with one decimal (amount: minutes, or tenths of an hour or a day)
estimated_effort(total_issues) ==
  IF total_issues * 2 < 60
  THEN [band |-> "minutes", amount |-> total_issues * 2]
  ELSE IF total_issues * 2 < 480
  THEN [band |-> "hours", amount |-> one_decimal(total_issues * 2, 60, FALSE)]
  ELSE [band |-> "days",
        amount |-> one_decimal(total_issues * 2, 480, total_issues \in DAYS_ROUNDED_UP)]

\* high_density_list
high_density_list(file_data) ==
  LET high_density == sort_by_density(SelectSeq(file_data, LAMBDA f : f.total >= 5))
      top == Take(high_density, 5)
  IN [k \in 1..Len(top) |->
        [file |-> top[k].path, issues |-> top[k].total, density |-> density(top[k])]]

MigrationReport(path) ==
  /\ report = NoReport
  /\ UNCHANGED <<convertVars, tree, fileVars>>
  /\ args' = [path |-> path]
  /\ IF path # "proj"
     THEN /\ report' = InvalidDirectory("migration_report")
          /\ opened' = <<>>
     ELSE LET acc == report_walk([file_data |-> <<>>, total_issues |-> 0,
                                  category_totals |-> [cat \in CategoryNames |-> 0],
                                  files_scanned |-> 0, skipped_files |-> <<>>,
                                  opened |-> <<>>], 1, NFiles)
              file_data == sort_by_total(acc.file_data)
              top == Take(file_data, 20)
          IN /\ opened' = acc.opened
             /\ report' =
                  [tool |-> "migration_report", status |-> "success",
                   files_requiring_changes |-> Len(file_data),
                   files_scanned |-> acc.files_scanned,
                   total_issues |-> acc.total_issues,
                   estimated_effort |-> estimated_effort(acc.total_issues),
                   issues_by_category |-> acc.category_totals,
                   priority_files |->
                     [k \in 1..Len(top) |-> [file |-> top[k].path, issues |-> top[k].total,
                                             lines |-> top[k].lines,
                                             density |-> density(top[k])]],
                   high_density |-> high_density_list(file_data),
                   quick_wins |->
                     Take(file_and_issues(SelectSeq(file_data, LAMBDA fd : fd.total < 5)), 5),
                   major_refactors |-> file_and_issues(Take(file_data, 5)),
                   skipped_count |-> Len(acc.skipped_files),
                   skipped_reason |-> skipped_reason(acc.skipped_files),
                   additional_files |-> IF Len(file_data) > 20 THEN Len(file_data) - 20 ELSE 0]

(***************************************************************************)
(* scan_compat.  The message, suggested_fix and source of an issue are not *)
(* part of the issue modelled here.                                        *)
(***************************************************************************)
Severities ==
  {"error", "warning", "info"}

CompatCategories ==
  {COMPAT_PATTERNS[k].category : k \in 1..Len(COMPAT_PATTERNS)}

scan_error(filepath, code, severity) ==
  [file |-> filepath, line |-> 0, code |-> code, severity |-> severity,
   category |-> "scan-error"]

count_where(issues, field, value) ==
  Cardinality({k \in 1..Len(issues) : issues[k][field] = value})

\* the body of the loop over files, for the file at position filepath
scan_file(acc, filepath) ==
  LET f == FileAt(filepath) IN
  IF ~f.isfile
  THEN [acc EXCEPT !.all_issues = Append(@, scan_error(filepath, "SCAN-ERR-001", "error"))]
  ELSE IF ~f.stat_ok THEN acc
  ELSE IF f.size > max_file_size_bytes
  THEN [acc EXCEPT !.all_issues = Append(@, scan_error(filepath, "SCAN-ERR-002", "warning"))]
  ELSE IF ~f.read_ok
  THEN [acc EXCEPT !.opened = Append(@, filepath),
                   !.all_issues = Append(@, scan_error(filepath, "SCAN-ERR-003", "error"))]
  ELSE LET found == file_compat_issues[f.text]
           issues == [k \in 1..Len(found) |-> [found[k] EXCEPT !.file = filepath]]
       IN [acc EXCEPT
             !.opened = Append(@, filepath),
             !.files_scanned = @ + 1,
             !.all_issues = @ \o issues,
             !.severity_counts =
                [s \in Severities |-> @[s] + count_where(issues, "severity", s)],
             !.category_counts =
                [c \in CompatCategories |-> @[c] + count_where(issues, "category", c)],
             !.files_with_issues = IF issues # <<>> THEN @ + 1 ELSE @]

RECURSIVE scan_files(_, _, _)
scan_files(acc, files, k) ==
  IF k > Len(files) THEN acc
  ELSE scan_files(scan_file(acc, files[k]), files, k + 1)

\* the values of scan_compat's files argument: no file, the first names and
\* the names that follow a full pad
FileLists ==
  {<<>>} \cup {[k \in 1..MaxTail |-> base + k] : base \in {0, max_files_per_operation - 1}}

ScanCompat(files) ==
  /\ report = NoReport
  /\ UNCHANGED <<convertVars, tree, fileVars>>
  /\ args' = [files |-> files]
  /\ IF files = <<>>
     THEN /\ report' = [tool |-> "scan_compat", status |-> "error",
                        error |-> "NoFilesProvided"]
          /\ opened' = <<>>
     ELSE LET acc == scan_files([all_issues |-> <<>>, files_scanned |-> 0,
                                 files_with_issues |-> 0,
                                 category_counts |-> [c \in CompatCategories |-> 0],
                                 severity_counts |-> [s \in Severities |-> 0],
                                 opened |-> <<>>], files, 1)
          IN /\ opened' = acc.opened
             /\ report' =
                  [tool |-> "scan_compat", status |-> "success",
                   issues |-> acc.all_issues,
                   total_issues |-> Len(acc.all_issues),
                   files_scanned |-> acc.files_scanned,
                   files_with_issues |-> acc.files_with_issues,
                   by_severity |-> acc.severity_counts,
                   by_category |-> acc.category_counts]

(***************************************************************************)
(* The single-file tools and the inline-code tools.  A response that is    *)
(* not built by create_response is a plain text: a record with a text      *)
(* field and without tool and status.  The code sent inline is the content *)
(* of the first file, declared with any of the lengths of CodeLengths.     *)
(***************************************************************************)
\* ast.parse(code) raises no SyntaxError
parses(text) ==
  \A i \in 1..Len(text.lines) : text.lines[i] \in PARSES

\* the loop over lines and PY2_PATTERNS.items(): one entry per scanned line and
\* matching pattern, in line order and, within a line, in the order of the dict
RECURSIVE py2_hits(_, _)
py2_hits(lines, i) ==
  IF i > Len(lines) THEN <<>>
  ELSE LET hits == IF skip_line(i, lines[i]) THEN <<>>
                   ELSE SelectSeq(PY2_PATTERNS, LAMBDA name : name \in PY2_MATCHES[lines[i]])
       IN [j \in 1..Len(hits) |-> [line |-> i, pattern |-> hits[j]]]
            \o py2_hits(lines, i + 1)

\* validate_conversion's loop over lines and runtime_patterns.items(); no line
\* is skipped
RECURSIVE runtime_hits(_, _)
runtime_hits(lines, i) ==
  IF i > Len(lines) THEN <<>>
  ELSE LET hits == SelectSeq(runtime_patterns,
                             LAMBDA info : info.issue \in RUNTIME_MATCHES[lines[i]])
       IN [j \in 1..Len(hits) |->
             [line |-> i, issue |-> hits[j].issue, severity |-> hits[j].severity]]
            \o runtime_hits(lines, i + 1)

\* (mutant of validation_status: the review items are not looked at)
validation_status_ignores_review(syntax_valid, remaining_patterns, needs_human_review) ==
  IF ~syntax_valid THEN "failed"
  ELSE IF remaining_patterns # <<>> THEN "incomplete"
  ELSE "success"

\* 4. Determine overall status
validation_status(syntax_valid, remaining_patterns, needs_human_review) ==
  IF ~syntax_valid THEN "failed"
  ELSE IF remaining_patterns # <<>> THEN "incomplete"
  ELSE IF needs_human_review # <<>> THEN "needs_review"
  ELSE "success"

InvalidFile(name) ==
  [tool |-> name, status |-> "error", error |-> "InvalidFile"]

ValidateConversion(file_path) ==
  /\ report = NoReport
  /\ UNCHANGED <<convertVars, tree, fileVars>>
  /\ args' = [file_path |-> file_path]
  /\ LET f == FileAt(file_path)
         size_error == check_file_size(f.size, f.stat_ok, "validate_conversion")
     IN IF ~f.isfile
        THEN report' = InvalidFile("validate_conversion") /\ opened' = <<>>
        ELSE IF size_error # NoResp
        THEN report' = size_error /\ opened' = <<>>
        ELSE IF ~f.read_ok
        THEN /\ report' = error_response("validate_conversion", "OSError")
             /\ opened' = <<file_path>>
        ELSE LET lines == split_nl(f.text)
                 syntax_valid == parses(f.text)
                 remaining_patterns == py2_hits(lines, 1)
                 needs_human_review == runtime_hits(lines, 1)
             IN /\ opened' = <<file_path>>
                /\ report' =
                     [tool |-> "validate_conversion", status |-> "success",
                      validation_status |->
                        validation_status(syntax_valid, remaining_patterns, needs_human_review),
                      syntax_valid |-> syntax_valid,
                      remaining_py2_patterns |-> remaining_patterns,
                      needs_human_review |-> needs_human_review,
                      review_count |->
                        [high_severity |-> count_where(needs_human_review, "severity", "high"),
                         medium_severity |-> count_where(needs_human_review, "severity", "medium"),
                         low_severity |-> count_where(needs_human_review, "severity", "low")]]

(***************************************************************************)
(* conversion_report.  lines_added, lines_removed, needs_attention and     *)
(* next_steps are not part of the report modelled here.                    *)
(***************************************************************************)
\* (mutant of fixed_issues: the difference is kept whatever its sign)
fixed_issues_unguarded(original_issues, remaining_issues) ==
  [pattern \in DOMAIN original_issues |->
     IF original_issues[pattern] > 0
     THEN original_issues[pattern] - remaining_issues[pattern]
     ELSE 0]

\* 3. Calculate what was fixed (0 stands for a key the dict does not hold)
fixed_issues(original_issues, remaining_issues) ==
  [pattern \in DOMAIN original_issues |->
     IF original_issues[pattern] > remaining_issues[pattern]
     THEN original_issues[pattern] - remaining_issues[pattern]
     ELSE 0]

\* (mutant of fix_rate: N/A is reported when nothing was fixed)
fix_rate_na_when_none_fixed(total_fixed, total_original) ==
  IF total_fixed > 0
  THEN [na |-> FALSE, tenths |-> percent_tenths(total_fixed, total_original)]
  ELSE [na |-> TRUE, tenths |-> 0]

\* the summary's fix_rate: "N/A" (na), or a percentage with one decimal
fix_rate(total_fixed, total_original) ==
  IF total_original > 0
  THEN [na |-> FALSE, tenths |-> percent_tenths(total_fixed, total_original)]
  ELSE [na |-> TRUE, tenths |-> 0]

\* 6. Determine status
conversion_status(total_remaining, total_fixed, syntax_valid) ==
  IF total_remaining = 0 /\ syntax_valid
  THEN (IF total_fixed = 0 THEN "no_changes_needed" ELSE "converted")
  ELSE IF total_remaining > 0 THEN "needs_review"
  ELSE IF ~syntax_valid THEN "failed"
  ELSE "converted"

ConversionReport(original_path, converted_path) ==
  /\ report = NoReport
  /\ UNCHANGED <<convertVars, tree, fileVars>>
  /\ args' = [original_path |-> original_path, converted_path |-> converted_path]
  /\ LET o == FileAt(original_path)
         c == FileAt(converted_path)
     IN IF ~o.isfile \/ ~c.isfile
        THEN report' = InvalidFile("conversion_report") /\ opened' = <<>>
        ELSE IF ~o.read_ok
        THEN /\ report' = error_response("conversion_report", "OSError")
             /\ opened' = <<original_path>>
        ELSE IF ~c.read_ok
        THEN /\ report' = error_response("conversion_report", "OSError")
             /\ opened' = <<original_path, converted_path>>
        ELSE LET original_issues == file_issue_dict[o.text].issues
                 remaining_issues == file_issue_dict[c.text].issues
                 fixed == fixed_issues(original_issues, remaining_issues)
                 syntax_valid == parses(c.text)
                 total_original == file_issue_dict[o.text].total
                 total_remaining == file_issue_dict[c.text].total
                 total_fixed == SumOver(DOMAIN fixed, fixed)
             IN /\ opened' = <<original_path, converted_path>>
                /\ report' =
                     [tool |-> "conversion_report", status |-> "success",
                      conversion_status |->
                        conversion_status(total_remaining, total_fixed, syntax_valid),
                      syntax_valid |-> syntax_valid,
                      original_issues |-> total_original,
                      issues_fixed |-> total_fixed,
                      issues_remaining |-> total_remaining,
                      fix_rate |-> fix_rate(total_fixed, total_original),
                      fixed_patterns |-> fixed,
                      remaining_patterns |-> remaining_issues]

(***************************************************************************)
(* The inline-code tools.                                                  *)
(***************************************************************************)
\* the values of len(code)
CodeLengths ==
  {20, max_code_length, max_code_length + 1}

\* check_code_length: an error response when len(code) exceeds the limit, None
\* (NoResp) otherwise
check_code_length(length, tool_name) ==
  IF length > max_code_length
  THEN [tool |-> tool_name, status |-> "error", error |-> "CodeLengthLimitExceeded"]
  ELSE NoResp

\* the code argument: the content of the first file
InlineCode ==
  FileAt(1).text

\* cat_count of the summary, for every category
cat_counts(issues) ==
  [cat \in CategoryNames |->
     Cardinality({k \in 1..Len(issues) : category_of(issues[k].pattern) = cat})]

AnalyzePy2Code(length) ==
  /\ report = NoReport
  /\ UNCHANGED <<convertVars, tree, fileVars>>
  /\ args' = [name |-> "analyze_py2_code", length |-> length]
  /\ opened' = <<>>
  /\ LET limit_error == check_code_length(length, "analyze_py2_code")
         issues == py2_hits(split_nl(InlineCode), 1)
     IN IF limit_error # NoResp THEN report' = limit_error
        ELSE IF issues = <<>>
        THEN report' = [text |-> "No Python 2 patterns detected. Code appears Python 3 compatible."]
        ELSE report' = [text |-> "## Analysis Summary", total |-> Len(issues),
                        by_category |-> cat_counts(issues), issues |-> issues]

\* the temporary file the handler writes is removed before it returns
Run2to3(length) ==
  /\ report = NoReport
  /\ UNCHANGED <<convertVars, tree, fileVars>>
  /\ args' = [name |-> "run_2to3", length |-> length]
  /\ opened' = <<>>
  /\ report' = IF HAS_FISSIX
               THEN [text |-> "=== fissix Output (Python 3.9+ compatible) ==="]
               ELSE [text |-> "=== 2to3 Output ==="]

ConvertPrintStatements(length) ==
  /\ report = NoReport
  /\ UNCHANGED <<convertVars, tree, fileVars>>
  /\ args' = [name |-> "convert_print_statements", length |-> length]
  /\ opened' = <<>>
  /\ LET lines == split_nl(InlineCode)
     IN report' = [text |-> "converted",
                   lines |-> [i \in 1..Len(lines) |-> PRINT_CONVERTED[lines[i]]]]

CheckSyntax(length) ==
  /\ report = NoReport
  /\ UNCHANGED <<convertVars, tree, fileVars>>
  /\ args' = [name |-> "check_syntax", length |-> length]
  /\ opened' = <<>>
  /\ report' = IF parses(InlineCode)
               THEN [text |-> "Valid Python 3 syntax"]
               ELSE [text |-> "Syntax error"]

\* the keys of guides
guides ==
  {"print", "unicode", "dict_methods", "exceptions", "division", "imports"}

GetMigrationGuide(issue) ==
  /\ report = NoReport
  /\ UNCHANGED <<convertVars, tree, fileVars>>
  /\ args' = [name |-> "get_migration_guide", issue |-> issue]
  /\ opened' = <<>>
  /\ report' = IF issue \in guides
               THEN [text |-> "guide", issue |-> issue]
               ELSE [text |-> "Unknown issue type. Available guides"]

\* a name that is none of the tools
UnknownTool(name) ==
  /\ report = NoReport
  /\ UNCHANGED <<convertVars, tree, fileVars>>
  /\ args' = [name |-> name]
  /\ opened' = <<>>
  /\ report' = [text |-> "Unknown tool"]

InitTools ==
  /\ tree \in ToolTrees
  /\ report = NoReport
  /\ opened = <<>>
  /\ temps = {}
  /\ probed = {}
  /\ disk = [p \in Paths |-> Absent]
  /\ HAS_FISSIX = TRUE
  /\ linesep = <<LF>>
  /\ pc = "idle"
  /\ args = NoArgs
  /\ original_code = <<>>
  /\ converted_code = <<>>
  /\ resp = NoResp
  /\ disk0 = disk
  /\ fault = "none"

NextTools ==
  \/ \E length \in CodeLengths : AnalyzePy2Code(length)
  \/ \E length \in CodeLengths : Run2to3(length)
  \/ \E length \in CodeLengths : ConvertPrintStatements(length)
  \/ \E length \in CodeLengths : CheckSyntax(length)
  \/ \E issue \in {"print", "metaclass"} : GetMigrationGuide(issue)
  \/ \E name \in {"no_such_tool"} : UnknownTool(name)
  \/ \E path \in {"proj", "nodir"} : AnalyzeDirectory(path)
  \/ \E path \in {"proj", "nodir"} : MigrationReport(path)
  \/ \E file_path \in {1, 2} : ValidateConversion(file_path)
  \/ \E converted_path \in {2} : ConversionReport(1, converted_path)
  \/ \E files \in FileLists : ScanCompat(files)

SpecTools ==
  InitTools /\ [][NextTools]_vars

InitScan ==
  /\ tree \in Trees
  /\ report = NoReport
  /\ opened = <<>>
  /\ temps = {}
  /\ probed = {}
  /\ disk = [p \in Paths |-> Absent]
  /\ HAS_FISSIX = TRUE
  /\ linesep = <<LF>>
  /\ pc = "idle"
  /\ args = NoArgs
  /\ original_code = <<>>
  /\ converted_code = <<>>
  /\ resp = NoResp
  /\ disk0 = disk
  /\ fault = "none"

NextScan ==
  \/ \E path \in {"proj", "nodir"} : AnalyzeDirectory(path)
  \/ \E path \in {"proj", "nodir"} : MigrationReport(path)
  \/ \E files \in FileLists : ScanCompat(files)

SpecScan ==
  InitScan /\ [][NextScan]_vars

InitReport ==
  /\ tree \in ReportTrees
  /\ report = NoReport
  /\ opened = <<>>
  /\ temps = {}
  /\ probed = {}
  /\ disk = [p \in Paths |-> Absent]
  /\ HAS_FISSIX = TRUE
  /\ linesep = <<LF>>
  /\ pc = "idle"
  /\ args = NoArgs
  /\ original_code = <<>>
  /\ converted_code = <<>>
  /\ resp = NoResp
  /\ disk0 = disk
  /\ fault = "none"

NextReport ==
  \E path \in {"proj", "nodir"} : MigrationReport(path)

SpecReport ==
  InitReport /\ [][NextReport]_vars

(***************************************************************************)
(* write_files of the filesystem server (src/filesystem_server.py).  The   *)
(* targets are the paths of disk; a temporary file bears the name of the   *)
(* path it was created for.  A request has at most MaxWrites paths, so the *)
(* TooManyFiles answer is not reached.                                     *)
(***************************************************************************)
\* LIMITS["max_content_length"]
max_content_length ==
  1000000

\* most paths of one write_files request
MaxWrites ==
  2

\* the step of one path's write that raises, if one does
WriteFaults ==
  {"none", "makedirs", "create", "write", "close", "replace"}

\* the content written
NewData ==
  <<"q", "q">>

\* the entries of the files argument: a content within the length limit and
\* the step that fails, or a content beyond the limit
WriteItems ==
  {[path |-> p, length |-> Len(NewData), data |-> NewData, fault |-> f] :
     p \in FilePaths, f \in WriteFaults}
    \cup {[path |-> p, length |-> max_content_length + 1, data |-> <<>>, fault |-> "none"] :
            p \in FilePaths}

\* the files argument: a dict, its items in insertion order
WriteRequests ==
  {files \in UNION {[1..n -> WriteItems] : n \in 0..MaxWrites} :
     \A i, j \in 1..Len(files) : files[i].path = files[j].path => i = j}

\* the handler's  except Exception as e:  the path goes to errors, and if the
\* local tmp_path is bound and names an existing file, that file is unlinked
\* (a failing unlink is swallowed)
write_failed(acc, item, unlink_ok) ==
  LET bound == acc.tmp_path # "unset"
      exists == bound /\ acc.tmp_path \in acc.temps
  IN [acc EXCEPT !.errors = @ \cup {item.path},
                 !.probed = IF bound THEN @ \cup {<<item.path, acc.tmp_path>>} ELSE @,
                 !.temps = IF exists /\ unlink_ok THEN @ \ {acc.tmp_path} ELSE @]

\* (mutant of write_one: the target is replaced before the temporary file is
\* closed)
write_one_replace_before_close(acc, item, unlink_ok) ==
  IF item.length > max_content_length
  THEN [acc EXCEPT !.errors = @ \cup {item.path}]
  ELSE IF item.fault \in {"makedirs", "create"}
  THEN write_failed(acc, item, unlink_ok)
  ELSE LET created == [acc EXCEPT !.temps = @ \cup {item.path}]
       IN IF item.fault = "write"
          THEN write_failed(created, item, unlink_ok)
          ELSE LET named == [created EXCEPT !.tmp_path = item.path]
                   replaced == [named EXCEPT !.disk[item.path] = File(item.data),
                                             !.temps = @ \ {item.path}]
               IN IF item.fault = "replace"
                  THEN write_failed(named, item, unlink_ok)
                  ELSE IF item.fault = "close"
                  THEN write_failed(replaced, item, unlink_ok)
                  ELSE [replaced EXCEPT !.results = @ \cup {item.path}]

\* the body of the loop over files.items(): the length check, makedirs, the
\* temporary file (created, written, its name bound to tmp_path, closed),
\* os.replace and the entry in results
write_one(acc, item, unlink_ok) ==
  IF item.length > max_content_length
  THEN [acc EXCEPT !.errors = @ \cup {item.path}]
  ELSE IF item.fault \in {"makedirs", "create"}
  THEN write_failed(acc, item, unlink_ok)
  ELSE LET created == [acc EXCEPT !.temps = @ \cup {item.path}]
       IN IF item.fault = "write"
          THEN write_failed(created, item, unlink_ok)
          ELSE LET named == [created EXCEPT !.tmp_path = item.path]
               IN IF item.fault \in {"close", "replace"}
                  THEN write_failed(named, item, unlink_ok)
                  ELSE [named EXCEPT !.disk[item.path] = File(item.data),
                                     !.temps = @ \ {item.path},
                                     !.results = @ \cup {item.path}]

RECURSIVE write_all(_, _, _, _)
write_all(acc, files, k, unlink_ok) ==
  IF k > Len(files) THEN acc
  ELSE write_all(write_one(acc, files[k], unlink_ok), files, k + 1, unlink_ok)

WriteFiles(files, unlink_ok) ==
  /\ report = NoReport
  /\ UNCHANGED <<HAS_FISSIX, linesep, pc, original_code, converted_code, resp, fault,
                 tree, opened>>
  /\ args' = [files |-> files]
  /\ disk0' = disk
  /\ IF Len(files) > max_files_per_operation
     THEN /\ report' = [tool |-> "write_files", status |-> "error", error |-> "TooManyFiles"]
          /\ UNCHANGED <<disk, temps, probed>>
     ELSE LET acc == write_all([disk |-> disk, temps |-> temps, tmp_path |-> "unset",
                                results |-> {}, errors |-> {}, probed |-> {}],
                               files, 1, unlink_ok)
          IN /\ disk' = acc.disk
             /\ temps' = acc.temps
             /\ probed' = acc.probed
             /\ report' = [tool |-> "write_files", status |-> "success",
                           results |-> acc.results, errors |-> acc.errors,
                           written_count |-> Cardinality(acc.results),
                           error_count |-> Cardinality(acc.errors)]

InitWrite ==
  /\ disk = [p \in Paths |->
               IF p = "m.py" THEN File(<<"p">>)
               ELSE IF p = "notes.txt" THEN File(<<"q">>) ELSE Absent]
  /\ HAS_FISSIX = TRUE
  /\ linesep = <<LF>>
  /\ pc = "idle"
  /\ args = NoArgs
  /\ original_code = <<>>
  /\ converted_code = <<>>
  /\ resp = NoResp
  /\ disk0 = disk
  /\ fault = "none"
  /\ tree = [pad |-> 0, tail |-> <<>>]
  /\ report = NoReport
  /\ opened = <<>>
  /\ temps = {}
  /\ probed = {}

NextWrite ==
  \E files \in WriteRequests, unlink_ok \in BOOLEAN : WriteFiles(files, unlink_ok)

SpecWrite ==
  InitWrite /\ [][NextWrite]_vars

(***************************************************************************)
(* list_project_files of the filesystem server.  The tree under the root   *)
(* is, in os.walk's order, pad files named *.py followed by a tail of a    *)
(* few files of the kinds below.  The sorted list of the relative paths    *)
(* (all distinct) is given as the number of pad files and the set of tail  *)
(* positions it holds.                                                     *)
(***************************************************************************)
\* a.py; notes.txt; a file whose name matches an exclude entry; a file below
\* a directory whose name matches an exclude entry
ListKinds ==
  {"py", "txt", "excluded", "pruned"}

ListPads ==
  {0, max_files_per_operation - 2, max_files_per_operation - 1, max_files_per_operation}

ListTrees ==
  {[pad |-> n, tail |-> t] :
     n \in ListPads, t \in UNION {[1..k -> ListKinds] : k \in 0..MaxTail}}

\* the patterns argument: none, or ['*.py']
ListPatterns ==
  {"none", "py"}

\* the walk reaches the file: dirnames[:] drops the excluded directories
enumerated(kind) ==
  kind # "pruned"

\* the two tests of the inner loop: the patterns, if any, then the exclusions
listed(kind, patterns) ==
  /\ patterns = "py" => kind = "py"
  /\ kind # "excluded"

\* the loops over the walk, from tail position k on; both loops are left
\* once files_found has reached the limit
RECURSIVE list_walk(_, _, _, _)
list_walk(acc, tail, k, patterns) ==
  IF k > Len(tail) \/ acc.files_found >= max_files_per_operation THEN acc
  ELSE IF enumerated(tail[k]) /\ listed(tail[k], patterns)
  THEN list_walk([files_found |-> acc.files_found + 1, tail |-> acc.tail \cup {k}],
                 tail, k + 1, patterns)
  ELSE list_walk(acc, tail, k + 1, patterns)

ListProjectFiles(root, patterns) ==
  /\ report = NoReport
  /\ UNCHANGED <<disk, HAS_FISSIX, linesep, pc, original_code, converted_code, resp, disk0,
                 fault, tree, opened, fileVars>>
  /\ args' = [root |-> root, patterns |-> patterns]
  /\ IF root # "proj"
     THEN report' = [tool |-> "list_project_files", status |-> "error",
                     error |-> "InvalidDirectory"]
     ELSE LET from_pad == IF tree.pad < max_files_per_operation
                          THEN tree.pad ELSE max_files_per_operation
              acc == list_walk([files_found |-> from_pad, tail |-> {}], tree.tail, 1, patterns)
          IN report' = [tool |-> "list_project_files", status |-> "success",
                        files |-> [pad |-> from_pad, tail |-> acc.tail],
                        count |-> from_pad + Cardinality(acc.tail),
                        truncated |-> acc.files_found >= max_files_per_operation]

InitList ==
  /\ disk = [p \in Paths |-> Absent]
  /\ HAS_FISSIX = TRUE
  /\ linesep = <<LF>>
  /\ pc = "idle"
  /\ args = NoArgs
  /\ original_code = <<>>
  /\ converted_code = <<>>
  /\ resp = NoResp
  /\ disk0 = disk
  /\ fault = "none"
  /\ tree \in ListTrees
  /\ report = NoReport
  /\ opened = <<>>
  /\ temps = {}
  /\ probed = {}

NextList ==
  \E root \in {"proj", "nodir"}, patterns \in ListPatterns : ListProjectFiles(root, patterns)

SpecList ==
  InitList /\ [][NextList]_vars

(***************************************************************************)
(* Claims about convert_file.  args, disk0 and fault are those of the      *)
(* running call, or of the last one once it has returned.                  *)
(***************************************************************************)
\* the bytes of the target before the call, the text the handler read from
\* them and the text it computed from that
OrigData ==
  disk0[args.file_path].data

OrigText ==
  read_text(OrigData)

ConvText ==
  rstrip_nl(refactor_string(OrigText \o <<LF>>))

WriteSteps ==
  {"backup_open", "backup_write", "target_open", "target_write"}

\* the call got as far as comparing converted_code with original_code and
\* found them different
FoundChanges ==
  \/ pc \in WriteSteps \cup {"crashed"}
  \/ pc = "idle" /\ fault \in WriteSteps
  \/ pc = "idle" /\ resp.action \in {"dry_run", "converted"}

\* the call got as far as the comparison
Compared ==
  FoundChanges \/ (pc = "idle" /\ resp.action = "no_changes_needed")

\* C1 (as claimed): at every point of a destructive conversion, also after a
\* failed write or a crash, the target file holds either its complete original
\* content or the complete converted content.
C1_TargetOriginalOrConverted ==
  disk[args.file_path] \in {disk0[args.file_path], File(write_text(ConvText))}

\* C2: when the backup file cannot be opened or written, the call returns an
\* error response and the target file holds what it held before the call.
C2_BackupFailureKeepsTarget ==
  (pc = "idle" /\ fault \in {"backup_open", "backup_write"})
    => /\ resp.status = "error"
       /\ disk[args.file_path] = disk0[args.file_path]

C2_Witness ==
  /\ pc = "idle"
  /\ fault = "backup_write"
  /\ args.backup /\ ~args.dry_run
  /\ disk[backup_path(args.file_path)] # disk0[backup_path(args.file_path)]

\* C3 (as claimed): with backup requested and dry_run false, whenever the target
\* differs from what it held before the call, the backup file holds exactly the
\* pre-conversion content of the target.
C3_BackupHoldsOriginalBeforeTargetChanges ==
  (args.backup /\ ~args.dry_run /\ disk[args.file_path] # disk0[args.file_path])
    => disk[backup_path(args.file_path)] = disk0[args.file_path]

\* C3 (what the code does keep): the backup write is complete before the target
\* is touched, and the backup holds the text the handler read, written back in
\* text mode: line endings are those of the platform, not those of the file.
C3_BackupHoldsTextBeforeTargetChanges ==
  (args.backup /\ ~args.dry_run /\ disk[args.file_path] # disk0[args.file_path])
    => disk[backup_path(args.file_path)] = File(write_text(OrigText))

\* C4: a call with dry_run true writes nothing: while it runs and after it has
\* returned, every file (target and backup) is as it was before the call.
C4_DryRunWritesNothing ==
  args.dry_run => disk = disk0

C4_Witness ==
  /\ pc = "idle"
  /\ resp.action = "dry_run"
  /\ args.dry_run /\ args.backup
  /\ ConvText # OrigText

\* C5 (as claimed): when the transform leaves the content unchanged, the call
\* reports no_changes_needed and writes neither the target nor a backup.
TransformLeavesUnchanged(text) ==
  refactor_string(text \o <<LF>>) = text \o <<LF>>

C5_UnchangedContentNeedsNoChanges ==
  (Compared /\ TransformLeavesUnchanged(OrigText))
    => /\ pc = "idle"
       /\ resp.action = "no_changes_needed"
       /\ disk = disk0

(***************************************************************************)
(* Claims about the aggregate scans.  report, args and opened are those of *)
(* the request the behaviour has served.                                   *)
(***************************************************************************)
\* the places of the tail; the files before them are the clean files of the pad
TailPositions ==
  (tree.pad + 1)..NFiles

\* the walk yields the file: a .py file outside the excluded directories
Enumerated(i) ==
  FileAt(i).py /\ ~FileAt(i).pruned

Oversized(i) ==
  FileAt(i).stat_ok /\ FileAt(i).size > max_file_size_bytes

\* stat-ing or reading the file fails
IOFails(i) ==
  ~FileAt(i).stat_ok \/ (FileAt(i).size <= max_file_size_bytes /\ ~FileAt(i).read_ok)

Readable(i) ==
  FileAt(i).stat_ok /\ FileAt(i).size <= max_file_size_bytes /\ FileAt(i).read_ok

\* how many of the first i files a walk without a file-count limit would scan
ScannableUpTo(i) ==
  IF i <= tree.pad THEN i
  ELSE tree.pad + Cardinality({j \in (tree.pad + 1)..i : Enumerated(j) /\ Readable(j)})

\* the walk reaches file i with files_scanned below the limit
BeforeCap(i) ==
  ScannableUpTo(i - 1) < max_files_per_operation

ExpectedScanned ==
  IF ScannableUpTo(NFiles) < max_files_per_operation
  THEN ScannableUpTo(NFiles) ELSE max_files_per_operation

Walked(tool) ==
  report.tool = tool /\ report.status = "success"

WalkedAny ==
  Walked("analyze_directory") \/ Walked("migration_report")

ListedTooLarge(i) ==
  \E k \in 1..Len(report.files) :
    report.files[k].file = i /\ report.files[k].status = "Skipped: file too large"

\* C6: in every aggregate scan (scan_compat over any list of files,
\* migration_report over any directory) the reported total_issues is the sum
\* of the per-category counts, and in scan_compat also the sum of the
\* by_severity counts.
C6_TotalIsSumOfCounts ==
  /\ Walked("scan_compat") =>
       /\ report.total_issues = SumOver(DOMAIN report.by_category, report.by_category)
       /\ report.total_issues = SumOver(DOMAIN report.by_severity, report.by_severity)
  /\ Walked("migration_report") =>
       report.total_issues
         = SumOver(DOMAIN report.issues_by_category, report.issues_by_category)

\* the part of C6 about migration_report, which holds
C6_MigrationReportTotalIsSum ==
  Walked("migration_report") =>
    report.total_issues
      = SumOver(DOMAIN report.issues_by_category, report.issues_by_category)

\* the counts analyze_directory must report: every readable file within the
\* size limit scanned, up to the file-count limit, and of those the ones
\* with issues
C7_Counts ==
  /\ report.files_scanned = ExpectedScanned
  /\ report.files_with_issues
       = Cardinality({i \in TailPositions :
                        /\ Enumerated(i) /\ Readable(i) /\ BeforeCap(i)
                        /\ py2_issue_count(split_nl(FileAt(i).text)) > 0})

\* C7 (as stated): in analyze_directory every .py file whose size exceeds
\* max_file_size_bytes is not scanned, does not count in files_scanned or
\* files_with_issues, and is in the files list with the too-large status.
C7_OversizedListedAsSkipped ==
  Walked("analyze_directory") =>
    /\ C7_Counts
    /\ \A i \in TailPositions :
         (Enumerated(i) /\ Oversized(i)) =>
           (i \notin Range(opened) /\ ListedTooLarge(i))

\* C7 (amended): in analyze_directory every .py file whose size exceeds
\* max_file_size_bytes and that the walk reaches before files_scanned has
\* reached max_files_per_operation is not scanned, does not count in
\* files_scanned or files_with_issues, and is in the files list with the
\* too-large status; one reached after that is counted in skipped_count
\* and is not in the files list.
C7_OversizedBeforeCapListedAsSkipped ==
  Walked("analyze_directory") =>
    /\ C7_Counts
    /\ \A i \in TailPositions :
         (Enumerated(i) /\ Oversized(i)) =>
           /\ i \notin Range(opened)
           /\ BeforeCap(i) => ListedTooLarge(i)
           /\ ~BeforeCap(i) => (~ListedTooLarge(i) /\ report.skipped_count > 0)

\* a directory of three .py files, one of them oversized: two files scanned
C7_Witness ==
  /\ Walked("analyze_directory")
  /\ NFiles = 3
  /\ \A i \in 1..NFiles : Enumerated(i) /\ (Oversized(i) \/ Readable(i))
  /\ Cardinality({i \in 1..NFiles : Oversized(i)}) = 1
  /\ report.files_scanned = 2
  /\ \E i \in 1..NFiles : Oversized(i) /\ ListedTooLarge(i)

\* C8: in migration_report every .py file skipped for its size is recorded as
\* skipped in the response, by an entry that names it or by the count of
\* skipped files.
C8_OversizedRecordedAsSkipped ==
  Walked("migration_report") =>
    LET named == {report.priority_files[k].file : k \in 1..Len(report.priority_files)}
        dropped == {i \in TailPositions : Enumerated(i) /\ Oversized(i) /\ i \notin named}
    IN Cardinality(dropped) <= report.skipped_count

\* the files a request is about: those the walk reaches with files_scanned
\* below the limit, or those scan_compat is given
Considered ==
  IF report.tool = "scan_compat" THEN Range(args.files)
  ELSE {i \in TailPositions : Enumerated(i) /\ BeforeCap(i)}

\* the response names the file in an entry that reports a failure
ErrorEntryFor(i) ==
  IF report.tool = "analyze_directory"
  THEN \E k \in 1..Len(report.files) :
         report.files[k].file = i /\ report.files[k].status # ""
  ELSE IF report.tool = "scan_compat"
  THEN \E k \in 1..Len(report.issues) :
         report.issues[k].file = i /\ report.issues[k].category = "scan-error"
  ELSE \E k \in 1..Len(report.priority_files) : report.priority_files[k].file = i

\* part (a) of C9, which holds: a file that cannot be read or stat-ed does
\* not stop the scan of the others, and the status is success
C9_OtherFilesStillScanned ==
  /\ (report.tool \in {"analyze_directory", "migration_report"} /\ args.path = "proj") =>
       (report.status = "success" /\ report.files_scanned = ExpectedScanned)
  /\ (report.tool = "scan_compat" /\ args.files # <<>>) =>
       /\ report.status = "success"
       /\ report.files_scanned
            = Cardinality({k \in 1..Len(args.files) :
                             FileAt(args.files[k]).isfile /\ Readable(args.files[k])})

\* C9: in each aggregate operation, when reading or stat-ing one file fails,
\* (a) the other files are still scanned and the status is success, and
\* (b) the response has an error entry that names the failed file.
C9_FileErrorIsolatedAndReported ==
  /\ C9_OtherFilesStillScanned
  /\ (report.tool # "none" /\ report.status = "success") =>
       \A i \in Considered : (FileAt(i).isfile /\ IOFails(i)) => ErrorEntryFor(i)

\* the .py files the walk reaches once files_scanned has reached the limit
\* (the pad is shorter than the limit, so they lie in the tail)
AfterCap ==
  {i \in TailPositions : Enumerated(i) /\ ~BeforeCap(i)}

\* C10: in analyze_directory and migration_report files_scanned never exceeds
\* max_files_per_operation; once it has reached the limit, every .py file
\* the walk yields afterwards is not read and is counted in skipped_count, and
\* the response carries the skipped_reason that names the limit.
C10_FileCountCap ==
  WalkedAny =>
    /\ report.files_scanned <= max_files_per_operation
    /\ \A i \in AfterCap : i \notin Range(opened)
    /\ report.skipped_count = Cardinality(AfterCap)
    /\ AfterCap # {} => report.skipped_reason = "Exceeded max_files_per_operation limit"
    /\ AfterCap = {} => report.skipped_reason = ""

\* the limit is reached and a readable file follows
C10_Witness ==
  /\ Walked("migration_report")
  /\ report.files_scanned = max_files_per_operation
  /\ report.skipped_count > 0
  /\ \E i \in AfterCap : Readable(i)

\* C11: in every aggregate scan response (analyze_directory, scan_compat, and
\* migration_report with files_requiring_changes as its files_with_issues)
\* files_with_issues is at most files_scanned, whatever files are missing,
\* oversized, unreadable or beyond the file-count limit.
C11_FilesWithIssuesAtMostScanned ==
  /\ (Walked("analyze_directory") \/ Walked("scan_compat")) =>
       report.files_with_issues <= report.files_scanned
  /\ Walked("migration_report") =>
       report.files_requiring_changes <= report.files_scanned

\* every scanned file has issues, next to a file that could not be scanned
C11_Witness ==
  /\ Walked("analyze_directory")
  /\ report.files_with_issues >= 1
  /\ report.files_with_issues = report.files_scanned
  /\ \E i \in TailPositions : Enumerated(i) /\ ~Readable(i)

(***************************************************************************)
(* Claims about the single-file tools and the inline-code tools.           *)
(***************************************************************************)
\* the response is a document built by create_response for the tool
Responded(tool) ==
  "tool" \in DOMAIN report /\ report.tool = tool /\ report.status = "success"

\* the legacy-pattern matches of a content: the lines outside the exempt
\* header lines, paired with the rules that match them
LegacyMatches(text) ==
  LET lines == split_nl(text)
  IN {<<i, name>> \in (1..Len(lines)) \X Range(PY2_PATTERNS) :
        /\ ~(i <= 2 /\ looks_like_header(lines[i]))
        /\ name \in PY2_MATCHES[lines[i]]}

\* the runtime-risk flags of a content
RiskFlags(text) ==
  LET lines == split_nl(text)
  IN {<<i, issue>> \in (1..Len(lines)) \X {runtime_patterns[k].issue : k \in 1..Len(runtime_patterns)} :
        issue \in RUNTIME_MATCHES[lines[i]]}

\* C12: validate_conversion reports validation_status success if and only if
\* the file has valid syntax, no remaining legacy-pattern match and no
\* runtime-risk flag; with valid syntax, no legacy match and at least one
\* runtime-risk flag it reports needs_review.
C12_CleanStatusIffNothingLeft ==
  Responded("validate_conversion") =>
    LET text == FileAt(args.file_path).text
        clean == parses(text) /\ LegacyMatches(text) = {} /\ RiskFlags(text) = {}
    IN /\ (report.validation_status = "success") <=> clean
       /\ (parses(text) /\ LegacyMatches(text) = {} /\ RiskFlags(text) # {}) =>
            report.validation_status = "needs_review"

\* a file that parses, has no legacy match and has a runtime-risk flag
C12_Witness ==
  /\ Responded("validate_conversion")
  /\ report.validation_status = "needs_review"
  /\ RiskFlags(FileAt(args.file_path).text) # {}

\* the part of C13 about validate_conversion, which holds
C13_ValidateUnparsableIsFailed ==
  (Responded("validate_conversion") /\ ~parses(FileAt(args.file_path).text)) =>
    report.validation_status = "failed"

\* C13: whenever the converted file does not parse, the reported status is
\* failed, in validate_conversion (validation_status) and in conversion_report
\* (conversion_status), however many legacy patterns remain.
C13_UnparsableIsFailed ==
  /\ C13_ValidateUnparsableIsFailed
  /\ (Responded("conversion_report") /\ ~parses(FileAt(args.converted_path).text)) =>
       report.conversion_status = "failed"

\* the number of legacy matches of one rule in a content
RuleCount(text, r) ==
  Cardinality({m \in LegacyMatches(text) : m[2] = r})

\* the larger of two integers
Max(a, b) ==
  IF a >= b THEN a ELSE b

\* C14: in conversion_report, every rule r of the original scan has
\* fixed[r] = max(0, original[r] - remaining[r]), where remaining[r] is 0 for
\* a rule absent from the converted scan; so 0 <= fixed[r] <= original[r] for
\* every rule, and issues_fixed <= original_issues.
C14_FixedIsClampedDifference ==
  Responded("conversion_report") =>
    LET o == FileAt(args.original_path).text
        c == FileAt(args.converted_path).text
    IN /\ \A r \in Range(PY2_PATTERNS) :
            /\ RuleCount(o, r) > 0 =>
                 report.fixed_patterns[r] = Max(0, RuleCount(o, r) - RuleCount(c, r))
            /\ report.remaining_patterns[r] = RuleCount(c, r)
            /\ 0 <= report.fixed_patterns[r]
            /\ report.fixed_patterns[r] <= RuleCount(o, r)
       /\ report.issues_fixed <= report.original_issues

\* a rule that matches in the original and matches more often in the converted
\* file, next to a rule of the original that the conversion removed
C14_Witness ==
  /\ Responded("conversion_report")
  /\ \E r \in Range(PY2_PATTERNS) :
       /\ RuleCount(FileAt(args.original_path).text, r) > 0
       /\ RuleCount(FileAt(args.converted_path).text, r) >
            RuleCount(FileAt(args.original_path).text, r)
       /\ report.fixed_patterns[r] = 0
  /\ report.issues_fixed > 0

\* C15: in conversion_report, fix_rate is "N/A" exactly when the original scan
\* has no issue; otherwise it is total_fixed / total_original as a percentage
\* (to one decimal) between 0 and 100, and it is 100% whenever no rule of the
\* original scan matches in the converted file.
C15_FixRate ==
  Responded("conversion_report") =>
    LET o == FileAt(args.original_path).text
        c == FileAt(args.converted_path).text
        total_original == Cardinality(LegacyMatches(o))
        rate == report.fix_rate
        off == rate.tenths * total_original - 1000 * report.issues_fixed
    IN /\ rate.na <=> (total_original = 0)
       /\ ~rate.na =>
            /\ rate.tenths \in 0..1000
            /\ 2 * off <= total_original
            /\ 2 * (0 - off) <= total_original
       /\ (total_original > 0
           /\ \A r \in Range(PY2_PATTERNS) : RuleCount(o, r) > 0 => RuleCount(c, r) = 0) =>
            (~rate.na /\ rate.tenths = 1000)

\* an original with issues, none of whose rules matches in the converted file
C15_Witness ==
  /\ Responded("conversion_report")
  /\ report.original_issues > 0
  /\ \A r \in Range(PY2_PATTERNS) :
       RuleCount(FileAt(args.original_path).text, r) > 0 =>
         RuleCount(FileAt(args.converted_path).text, r) = 0
  /\ ~report.fix_rate.na
  /\ report.fix_rate.tenths = 1000

\* a response with the fixed envelope (create_response always adds the
\* timestamp to a document that has tool and status)
IsEnvelope(r) ==
  /\ "tool" \in DOMAIN r
  /\ "status" \in DOMAIN r
  /\ r.status \in {"success", "error"}

\* the part of C16 about the tools that work on files and directories, which
\* holds
C16_FileToolsReturnEnvelope ==
  (report # NoReport /\ "name" \notin DOMAIN args) => IsEnvelope(report)

\* C16: every tool call returns one JSON document with the envelope tool,
\* status (success or error) and timestamp; this includes the inline-code
\* tools, get_migration_guide and an unknown tool name.
C16_EveryResponseIsEnvelope ==
  report # NoReport => IsEnvelope(report)

\* the inline-code tools
InlineTools ==
  {"analyze_py2_code", "run_2to3", "convert_print_statements", "check_syntax"}

\* a call of an inline-code tool has been answered
InlineAnswered ==
  /\ report # NoReport
  /\ "name" \in DOMAIN args
  /\ args.name \in InlineTools

\* the response is the CodeLengthLimitExceeded error
IsLengthError(r) ==
  /\ "error" \in DOMAIN r
  /\ r.error = "CodeLengthLimitExceeded"

\* the part of C17 about analyze_py2_code, which holds
C17_AnalyzeRejectsOverlongCode ==
  (InlineAnswered /\ args.name = "analyze_py2_code") =>
    (IsLengthError(report) <=> args.length > max_code_length)

\* C17: every inline-code tool (analyze_py2_code, run_2to3,
\* convert_print_statements, check_syntax) answers code longer than
\* max_code_length with the CodeLengthLimitExceeded error, and accepts code of
\* exactly max_code_length characters.
C17_OverlongCodeRejected ==
  InlineAnswered =>
    (IsLengthError(report) <=> args.length > max_code_length)

\* scan_compat read and scanned the k-th file of its argument
ScannedByCompat(k) ==
  /\ FileAt(args.files[k]).isfile
  /\ Readable(args.files[k])

\* scan_compat reported an issue for line i of the file
CompatFlagged(filepath, i) ==
  \E n \in 1..Len(report.issues) :
    report.issues[n].file = filepath /\ report.issues[n].line = i

\* C18: the two views of the pattern registry agree: a line is flagged by
\* some rule of COMPAT_PATTERNS (as scan_compat reports it) if and only if it
\* is flagged by some rule of PY2_PATTERNS.
C18_RegistriesAgree ==
  Responded("scan_compat") =>
    \A k \in 1..Len(args.files) :
      ScannedByCompat(k) =>
        LET lines == readlines(FileAt(args.files[k]).text)
        IN \A i \in 1..Len(lines) :
             ~skip_line(i, lines[i]) =>
               (CompatFlagged(args.files[k], i) <=> PY2_MATCHES[lines[i]] # {})

\* a line exempt from scanning: one of the first two lines that starts with
\* "#!" or contains the encoding marker
Exempt(i, line) ==
  i \in {1, 2} /\ looks_like_header(line)

\* the eligible lines of a file read with readlines, paired with the codes of
\* the COMPAT_PATTERNS rules that match them
CompatMatches(text) ==
  LET lines == readlines(text)
  IN {<<i, COMPAT_PATTERNS[k].code>> : <<i, k>> \in
        {<<i, k>> \in (1..Len(lines)) \X (1..Len(COMPAT_PATTERNS)) :
           /\ ~Exempt(i, lines[i])
           /\ COMPAT_PATTERNS[k].name \in COMPAT_MATCHES[lines[i]]}}

\* the (line, pattern) pairs of a list of hits
HitSet(hits) ==
  {<<hits[k].line, hits[k].pattern>> : k \in 1..Len(hits)}

\* every file of the tree is a .py file that the walk reads, and the tree is
\* smaller than the file-count limit
WholeTreeScanned ==
  /\ NFiles < max_files_per_operation
  /\ \A i \in 1..NFiles : Enumerated(i) /\ Readable(i)

\* the legacy matches of all files of the tree together
TreeLegacyTotal ==
  SumOver(1..NFiles, [i \in 1..NFiles |-> Cardinality(LegacyMatches(FileAt(i).text))])

\* C19: in every scan loop (analyze_py2_code, analyze_directory,
\* migration_report, validate_conversion's legacy scan, conversion_report,
\* scan_compat) a line yields no issue when it is line 1 or 2 and starts with
\* "#!" or contains the encoding marker; every other line is tested against
\* all rules, so the issues reported are exactly the matches of the lines
\* that are not exempt.
C19_HeaderLinesExemptOthersTested ==
  /\ (InlineAnswered /\ args.name = "analyze_py2_code" /\ ~IsLengthError(report)) =>
       (IF "issues" \in DOMAIN report THEN HitSet(report.issues) ELSE {})
         = LegacyMatches(InlineCode)
  /\ (Responded("analyze_directory") /\ WholeTreeScanned) =>
       /\ report.total_issues = TreeLegacyTotal
       /\ \A k \in 1..Len(report.files) :
            report.files[k].issues =
              Cardinality(LegacyMatches(FileAt(report.files[k].file).text))
  /\ (Responded("migration_report") /\ WholeTreeScanned) =>
       /\ report.total_issues = TreeLegacyTotal
       /\ \A k \in 1..Len(report.priority_files) :
            report.priority_files[k].issues =
              Cardinality(LegacyMatches(FileAt(report.priority_files[k].file).text))
  /\ Responded("validate_conversion") =>
       HitSet(report.remaining_py2_patterns) = LegacyMatches(FileAt(args.file_path).text)
  /\ Responded("conversion_report") =>
       /\ report.original_issues =
            Cardinality(LegacyMatches(FileAt(args.original_path).text))
       /\ \A r \in Range(PY2_PATTERNS) :
            report.remaining_patterns[r] = RuleCount(FileAt(args.converted_path).text, r)
  /\ Responded("scan_compat") =>
       \A k \in 1..Len(args.files) :
         ScannedByCompat(k) =>
           {<<report.issues[n].line, report.issues[n].code>> :
              n \in {m \in 1..Len(report.issues) : report.issues[m].file = args.files[k]}}
             = CompatMatches(FileAt(args.files[k]).text)

\* scan_compat read a file in which a line that contains the encoding marker
\* and matches a rule is exempt as line 1 or 2 and reported as line 3
C19_Witness ==
  /\ Responded("scan_compat")
  /\ \E k \in 1..Len(args.files) :
       /\ ScannedByCompat(k)
       /\ LET lines == readlines(FileAt(args.files[k]).text)
          IN /\ Len(lines) >= 3
             /\ \E i \in {1, 2} :
                  /\ Exempt(i, lines[i])
                  /\ COMPAT_MATCHES[lines[i]] # {}
                  /\ ~CompatFlagged(args.files[k], i)
                  /\ lines[3] = lines[i]
             /\ CompatFlagged(args.files[k], 3)

\* validate_conversion read a file whose first line starts with "#!" and
\* matches a legacy rule, and whose third line is the same line
C19_ValidateWitness ==
  /\ Responded("validate_conversion")
  /\ LET lines == split_nl(FileAt(args.file_path).text)
     IN /\ Len(lines) >= 3
        /\ Exempt(1, lines[1])
        /\ PY2_MATCHES[lines[1]] # {}
        /\ lines[3] = lines[1]
        /\ {h \in HitSet(report.remaining_py2_patterns) : h[1] = 1} = {}
        /\ {h \in HitSet(report.remaining_py2_patterns) : h[1] = 3} # {}

\* the issues scan_compat reported for one file, in the order of the response
IssuesOf(filepath) ==
  SelectSeq(report.issues, LAMBDA issue : issue.file = filepath)

\* the place of a rule in the registry, by its code
RegistryIndex(code) ==
  CHOOSE k \in 1..Len(COMPAT_PATTERNS) : COMPAT_PATTERNS[k].code = code

\* C20: in scan_compat, for each eligible line the number of issues emitted
\* equals the number of registry rules whose pattern matches the line: each
\* matching rule yields exactly one issue for the line, however often its
\* pattern matches on it, and no rule's match suppresses another rule's; the
\* issues of a file come in line order and, within a line, in registry order.
C20_OneIssuePerMatchingRuleInOrder ==
  Responded("scan_compat") =>
    \A k \in 1..Len(args.files) :
      ScannedByCompat(k) =>
        LET lines == readlines(FileAt(args.files[k]).text)
            own == IssuesOf(args.files[k])
        IN /\ \A i \in 1..Len(lines) :
                ~Exempt(i, lines[i]) =>
                  /\ Cardinality({n \in 1..Len(own) : own[n].line = i})
                       = Cardinality(COMPAT_MATCHES[lines[i]])
                  /\ \A r \in 1..Len(COMPAT_PATTERNS) :
                       COMPAT_PATTERNS[r].name \in COMPAT_MATCHES[lines[i]] =>
                         Cardinality({n \in 1..Len(own) :
                                        /\ own[n].line = i
                                        /\ own[n].code = COMPAT_PATTERNS[r].code}) = 1
           /\ \A m, n \in 1..Len(own) :
                m < n =>
                  \/ own[m].line < own[n].line
                  \/ /\ own[m].line = own[n].line
                     /\ RegistryIndex(own[m].code) < RegistryIndex(own[n].code)

\* scan_compat read a file with a line that two rules match, one of them
\* twice (the line with two <> operators), and reported two issues for it
C20_Witness ==
  /\ Responded("scan_compat")
  /\ \E k \in 1..Len(args.files) :
       /\ ScannedByCompat(k)
       /\ LET lines == readlines(FileAt(args.files[k]).text)
          IN \E i \in 1..Len(lines) :
               /\ lines[i] = "if a <> b <> c: raise E, msg"
               /\ Cardinality(COMPAT_MATCHES[lines[i]]) = 2
               /\ Cardinality({n \in 1..Len(report.issues) :
                                 /\ report.issues[n].file = args.files[k]
                                 /\ report.issues[n].line = i}) = 2

(***************************************************************************)
(* Claims about migration_report's lists and estimate (SpecReport).        *)
(***************************************************************************)
\* the files the walk read in which some rule matches an eligible line
ScannedWithIssues ==
  {i \in 1..NFiles :
     /\ Enumerated(i) /\ Readable(i) /\ BeforeCap(i)
     /\ LegacyMatches(FileAt(i).text) # {}}

\* the smaller of two integers
Min(a, b) ==
  IF a <= b THEN a ELSE b

\* C21: in migration_report, priority_files has min(20,
\* files_requiring_changes) entries, files_requiring_changes is the number of
\* scanned files with issues whatever the cap of the list, and
\* additional_files is present exactly when files_requiring_changes exceeds
\* 20, with the value files_requiring_changes - 20.
C21_PriorityFilesCappedCountTrue ==
  Responded("migration_report") =>
    /\ report.files_requiring_changes = Cardinality(ScannedWithIssues)
    /\ Len(report.priority_files) = Min(20, report.files_requiring_changes)
    /\ report.additional_files =
         (IF report.files_requiring_changes > 20
          THEN report.files_requiring_changes - 20 ELSE 0)

\* more than 20 files need changes: the list stops at 20 and the rest is
\* counted
C21_Witness ==
  /\ Responded("migration_report")
  /\ Cardinality(ScannedWithIssues) > 20
  /\ Len(report.priority_files) = 20
  /\ report.additional_files = Cardinality(ScannedWithIssues) - 20

\* the part of C22 about the threshold and the length, which holds
C22_QuickWinsSmallAndFew ==
  Responded("migration_report") =>
    /\ Len(report.quick_wins) <= 5
    /\ \A k \in 1..Len(report.quick_wins) : report.quick_wins[k].issues < 5

\* C22: in migration_report, quick_wins holds only files with fewer than 5
\* issues, at most 5 of them, in ascending order of issue count or in the
\* order the walk enumerated them (a file's name is its place in that order).
C22_QuickWinsAscendingOrEnumerated ==
  /\ C22_QuickWinsSmallAndFew
  /\ Responded("migration_report") =>
       LET q == report.quick_wins
       IN \/ \A m, n \in 1..Len(q) : m < n => q[m].issues <= q[n].issues
          \/ \A m, n \in 1..Len(q) : m < n => q[m].file < q[n].file

\* the number of lines migration_report counts in file i
LinesOf(i) ==
  Len(split_nl(FileAt(i).text))

\* density is issues / lines as a percentage with one decimal, and 0 for a
\* file without lines
DensityOfEntry(entry) ==
  IF LinesOf(entry.file) = 0 THEN entry.density = 0
  ELSE LET off == entry.density * LinesOf(entry.file) - 1000 * entry.issues
       IN 2 * off <= LinesOf(entry.file) /\ 2 * (0 - off) <= LinesOf(entry.file)

\* C23: in migration_report, high_density holds only files with at least 5
\* issues, in non-increasing order of issues / total_lines; the density of a
\* listed file is that ratio, or 0 for a file without lines, and the report
\* is produced whatever the files' lengths, an empty file included (no
\* division by zero).
C23_HighDensityOrderedNoDivisionByZero ==
  /\ (report # NoReport /\ args.path = "proj") => Responded("migration_report")
  /\ Responded("migration_report") =>
       LET h == report.high_density
       IN /\ \A k \in 1..Len(h) : h[k].issues >= 5 /\ DensityOfEntry(h[k])
          /\ \A k \in 1..Len(report.priority_files) : DensityOfEntry(report.priority_files[k])
          /\ \A m, n \in 1..Len(h) :
               m < n => h[m].issues * LinesOf(h[n].file) >= h[n].issues * LinesOf(h[m].file)

\* a tree with an empty file, and two files of at least 5 issues of which the
\* one with fewer issues has the higher density and is listed first
C23_Witness ==
  /\ Responded("migration_report")
  /\ \E i \in 1..NFiles : FileAt(i).text = EmptyText
  /\ \E m, n \in 1..Len(report.high_density) :
       /\ m < n
       /\ report.high_density[m].issues < report.high_density[n].issues

\* the duration an estimate stands for, in minutes (a day has 8 hours)
EffortMinutes(effort) ==
  IF effort.band = "minutes" THEN effort.amount
  ELSE IF effort.band = "hours" THEN effort.amount * 6
  ELSE effort.amount * 48

\* C24: in migration_report the effort estimate derives from minutes =
\* 2 * total_issues; it is shown in minutes when minutes < 60, in hours when
\* 60 <= minutes < 480, in days otherwise, to the precision of its band, and
\* the duration shown does not decrease when total_issues grows.
C24_EffortBandsMonotonic ==
  Responded("migration_report") =>
    LET minutes == 2 * report.total_issues
        effort == report.estimated_effort
    IN /\ effort.band \in {"minutes", "hours", "days"}
       /\ (effort.band = "minutes") <=> (minutes < 60)
       /\ (effort.band = "hours") <=> (60 <= minutes /\ minutes < 480)
       /\ (effort.band = "days") <=> (minutes >= 480)
       /\ effort.band = "minutes" => effort.amount = minutes
       /\ effort.band = "hours" =>
            (effort.amount * 6 - minutes <= 3 /\ minutes - effort.amount * 6 <= 3)
       /\ effort.band = "days" =>
            (effort.amount * 48 - minutes <= 24 /\ minutes - effort.amount * 48 <= 24)
       /\ \A fewer \in 0..report.total_issues :
            EffortMinutes(estimated_effort(fewer)) <= EffortMinutes(effort)

\* 240 issues: exactly eight hours, shown as one day
C24_Witness ==
  /\ Responded("migration_report")
  /\ report.total_issues = 240
  /\ report.estimated_effort = [band |-> "days", amount |-> 10]

\* 29 issues are shown as 58 minutes
C24_MinutesWitness ==
  /\ Responded("migration_report")
  /\ report.total_issues = 29
  /\ report.estimated_effort = [band |-> "minutes", amount |-> 58]

\* 30 issues are shown as 1.0 hours
C24_HoursWitness ==
  /\ Responded("migration_report")
  /\ report.total_issues = 30
  /\ report.estimated_effort = [band |-> "hours", amount |-> 10]

\* the rules the conversion introduced: no match in the original file, some
\* match in the converted file
Introduced(o, c) ==
  {r \in Range(PY2_PATTERNS) : RuleCount(o, r) = 0 /\ RuleCount(c, r) > 0}

\* the matches left in the converted file of the rules that matched in the
\* original file
CarriedOver(o, c) ==
  LET rules == Range(PY2_PATTERNS) \ Introduced(o, c)
  IN SumOver(rules, [r \in rules |-> RuleCount(c, r)])

\* C26: in conversion_report, a rule that matches in the converted file and
\* not in the original file is not counted in remaining_patterns or
\* issues_remaining, and does not by itself change conversion_status.
C26_IntroducedNotCountedAsRemaining ==
  Responded("conversion_report") =>
    LET o == FileAt(args.original_path).text
        c == FileAt(args.converted_path).text
    IN /\ \A r \in Introduced(o, c) : report.remaining_patterns[r] = 0
       /\ report.issues_remaining = CarriedOver(o, c)
       /\ (CarriedOver(o, c) = 0 /\ report.syntax_valid) =>
            report.conversion_status \in {"converted", "no_changes_needed"}

\* the entries of analyze_directory's files that carry a status (skipped or
\* error) instead of an issue count
StatusEntries ==
  {k \in 1..Len(report.files) : report.files[k].status # ""}

\* C29: in analyze_directory every .py file enumerated under a non-excluded
\* directory is accounted for exactly once: files_scanned + the number of
\* entries with a skipped or error status + skipped_count is the number of
\* enumerated .py files, and no file has two entries.
C29_EveryEnumeratedFileAccountedOnce ==
  (Walked("analyze_directory") /\ report.tool = "analyze_directory") =>
    /\ report.files_scanned + Cardinality(StatusEntries) + report.skipped_count
         = Cardinality({i \in 1..NFiles : Enumerated(i)})
    /\ \A m, n \in 1..Len(report.files) :
         report.files[m].file = report.files[n].file => m = n
    /\ \A k \in 1..Len(report.files) : Enumerated(report.files[k].file)

\* a tree with a file that is read, and two files listed with a status
C29_Witness ==
  /\ Walked("analyze_directory")
  /\ report.files_scanned > 0
  /\ Cardinality(StatusEntries) = 2
  /\ Cardinality({i \in 1..NFiles : Enumerated(i)}) = report.files_scanned + 2

\* a tree in which the file-count limit leaves a file unread
C29_SkippedWitness ==
  /\ Walked("analyze_directory")
  /\ report.skipped_count > 0
  /\ Cardinality({i \in 1..NFiles : Enumerated(i)})
       = report.files_scanned + Cardinality(StatusEntries) + report.skipped_count

(***************************************************************************)
(* Claim about repeated conversions (SpecBackup).                          *)
(***************************************************************************)
\* the first conversion of a behaviour leaves the content m.py had before it
\* in the backup (as text: the translation of newlines apart)
C28_FirstBackupHoldsOriginal ==
  (pc = "idle" /\ resp.action = "converted" /\ ~disk0[backup_path("m.py")].exists) =>
    read_text(disk[backup_path("m.py")].data) = read_text(disk0["m.py"].data)

\* C28: after any sequence of successful non-dry-run convert_file calls with
\* backup true on the same path, <path>.py2.bak holds the content the file
\* had before the first of them: a conversion that finds a backup made by an
\* earlier call leaves that backup as it is.
C28_BackupKeepsFirstOriginal ==
  (pc = "idle" /\ resp.action = "converted" /\ disk0[backup_path("m.py")].exists) =>
    disk[backup_path("m.py")] = disk0[backup_path("m.py")]

(***************************************************************************)
(* Claims about the filesystem server's write_files (SpecWrite) and        *)
(* list_project_files (SpecList).                                          *)
(***************************************************************************)
\* the requested paths
Requested ==
  {args.files[k].path : k \in 1..Len(args.files)}

\* the requested paths whose write raised at one of the given steps
FailedAt(steps) ==
  {args.files[k].path : k \in {i \in 1..Len(args.files) :
                                 /\ args.files[i].length <= max_content_length
                                 /\ args.files[i].fault \in steps}}

\* the part of C25 that holds: a temporary file is left behind only for a
\* path whose write raised after the file was created
C25_LeftoverOnlyAfterFailure ==
  Responded("write_files") => temps \subseteq FailedAt({"write", "close", "replace"})

\* C25: in write_files the temporary file created for a target is gone after
\* the call on every exit path of that target's write (success, or a failure
\* while writing into it, closing it or replacing the target), and a failure
\* while handling one path never consults or removes the temporary file of
\* another path.
C25_TempFilesCleanedUp ==
  Responded("write_files") =>
    /\ temps = {}
    /\ \A pair \in probed : pair[1] = pair[2]

\* the requested paths whose content is within the limit and whose write
\* meets no failure
Writable ==
  FailedAt({"none"})

\* C30: write_files puts each requested path in exactly one of results and
\* errors, written_count + error_count is the number of requested paths, a
\* path in errors keeps the content it had before the call (or stays absent),
\* and a failure on one path neither prevents nor undoes the write of the
\* others.
C30_EachPathWrittenOrErrored ==
  Responded("write_files") =>
    /\ report.results \cap report.errors = {}
    /\ report.results \cup report.errors = Requested
    /\ report.written_count + report.error_count = Len(args.files)
    /\ \A p \in report.errors : disk[p] = disk0[p]
    /\ report.results = Writable
    /\ \A p \in report.results : disk[p] = File(NewData)
    /\ \A p \in Paths \ Requested : disk[p] = disk0[p]

\* a request whose first path fails once its temporary file is closed or
\* about to replace the target and whose second path is written, and one in
\* the other order
C30_Witness ==
  /\ Responded("write_files")
  /\ Len(args.files) = 2
  /\ args.files[1].path \in FailedAt({"close", "replace"})
  /\ args.files[2].path \in report.results
  /\ disk[args.files[1].path].exists

C30_WrittenThenFailedWitness ==
  /\ Responded("write_files")
  /\ Len(args.files) = 2
  /\ args.files[1].path \in report.results
  /\ args.files[2].path \in report.errors

\* the files under the root that the patterns and the exclusions select
Selected ==
  tree.pad + Cardinality({k \in 1..Len(tree.tail) :
                            enumerated(tree.tail[k]) /\ listed(tree.tail[k], args.patterns)})

\* the part of C27 that holds: truncated is true exactly when the selected
\* files number at least the limit, so a listing that omits a selected file
\* is always flagged
C27_TruncatedIffLimitReached ==
  Responded("list_project_files") =>
    /\ report.truncated = (Selected >= max_files_per_operation)
    /\ Selected > report.count => report.truncated

\* C27: list_project_files reports truncated = true exactly when some file
\* selected by the patterns and exclusions was left out of files because of
\* the 1000-file cap; a tree with exactly 1000 selected files is listed in
\* full and is not reported as truncated.
C27_TruncatedIffFileOmitted ==
  Responded("list_project_files") =>
    report.truncated = (Selected > report.count)

=============================================================================
